---- MODULE Spec2Model ----
(***************************************************************************)
(* BeerBot backend: the event handlers (buildEventHandler of bot/slack.go  *)
(* and MinimalSlackBot.processBeerGiving), the SQLite store they share     *)
(* (processed_events, beers) and the recipient-gift association.           *)
(***************************************************************************)
EXTENDS Integers, Sequences, FiniteSets, TLC

\* ------------------------------------------------------------------ bounds

\* Longest message text, in tokens, that the association is enumerated over.
MaxLen == 4

\* Deliveries (handler invocations) in one behaviour.
MaxDeliveries == 2

\* Store calls that fail with a database error in one behaviour.
MaxFaults == 1

\* Midnights that pass in one behaviour.
MaxTicks == 1

\* Rows of a beers table left by an earlier version of the program.
MaxLegacyRows == 2

\* Calls of the store's methods in one behaviour.
MaxCalls == 2

\* Restarts of the process in one behaviour.
MaxRestarts == 1

\* The -max-per-day setting of the deployment (10 when the flag is not given).
maxPerDay == 2

\* Failed connection attempts in a row, connections made, Hello events sent
\* and ticks of the connection monitor.
MaxAttempts == 2

MaxConnections == 2

MaxHellos == 2

MaxProbes == 1

\* The largest attempt count the delay is computed for.
MaxCount == 70

\* The longest text a quantity is extracted from, and the most beer emoji in
\* a row.
MaxQLen == 3

MaxEmoji == 11

\* The longest timestamp token as a text, in pieces.
MaxTsPieces == 3

\* Health requests answered in one behaviour.
MaxRequests == 2

\* The longest Authorization header, in pieces.
MaxHeader == 4

\* ------------------------------------------------------- message text

\* A message text is a sequence of tokens.  "M1".."M3" are the mentions
\* <@U1>..<@U3>, "B" is the gift marker (the configured emoji), "S" is one
\* blank, "W" is a word without marker or mention ("hey") and "N2" is the
\* digit 2.
MentionTokens == {"M1", "M2", "M3"}

Alphabet == {"M1", "M2", "B", "S", "N2"}

\* The recipient id the mention regexp <@([A-Z0-9]+)> captures.
MentionID(tok) ==
    CASE tok = "M1" -> "U1"
      [] tok = "M2" -> "U2"
      [] tok = "M3" -> "U3"

\* Byte length of a token: "<@U1>" is 5 bytes, the emoji is 4, a blank 1.
TokLen(tok) ==
    CASE tok \in MentionTokens -> 5
      [] tok = "B" -> 4
      [] tok = "S" -> 1
      [] tok \in {"N0", "N1", "N2"} -> 1
      [] OTHER -> 3

RECURSIVE StartOf(_, _)
\* Byte offset at which token i of the text starts.
StartOf(txt, i) == IF i = 1 THEN 0 ELSE StartOf(txt, i - 1) + TokLen(txt[i - 1])

EndOf(txt, i) == StartOf(txt, i) + TokLen(txt[i])

\* mentionRe.FindAllStringSubmatchIndex: the mention occurrences, as positions.
mentionIndices(txt) == {i \in DOMAIN txt : txt[i] \in MentionTokens}

\* emojiRe.FindAllStringIndex: the marker occurrences, as positions.
emojiIndices(txt) == {i \in DOMAIN txt : txt[i] = "B"}

\* The comparison of the inner loop, with the marker at position e and the
\* mention at position m: the marker starts strictly after the mention's end.
Qualifies(txt, e, m) == StartOf(txt, e) > EndOf(txt, m)

\* The inner loop: among the qualifying mentions the one with the greatest
\* start offset; "" when there is none.
recipientOf(txt, e) ==
    LET Q == {m \in mentionIndices(txt) : Qualifies(txt, e, m)}
    IN  IF Q = {} THEN ""
        ELSE MentionID(txt[CHOOSE m \in Q :
                 \A n \in Q : StartOf(txt, n) <= StartOf(txt, m)])

\* The map recipientBeers after the outer loop; empty when the handler returned
\* before it (no mention or no marker in the text).
recipientBeers(txt) ==
    IF mentionIndices(txt) = {} \/ emojiIndices(txt) = {}
    THEN << >>
    ELSE LET R == {recipientOf(txt, e) : e \in emojiIndices(txt)} \ {""}
         IN  [r \in R |->
                 Cardinality({e \in emojiIndices(txt) : recipientOf(txt, e) = r})]

RECURSIVE SumOver(_, _)
SumOver(f, S) ==
    IF S = {} THEN 0
    ELSE LET x == CHOOSE y \in S : TRUE IN f[x] + SumOver(f, S \ {x})

\* totalBeersToGive
totalBeersToGive(rb) == SumOver(rb, DOMAIN rb)


\* ----------------------------------------------- MinimalSlackBot's parsing

\* MAX_BEER_GIFT when the environment does not set it.
maxGift == 10

\* The digits "0", "1" and "2".
NumeralTokens == {"N0", "N1", "N2"}

NumeralValue(tok) == CASE tok = "N1" -> 1 [] tok = "N2" -> 2 [] OTHER -> 0

RECURSIVE SkipBlanks(_, _)
\* The first position >= i of the text that holds no blank (\s*).
SkipBlanks(txt, i) ==
    IF i <= Len(txt) /\ txt[i] = "S" THEN SkipBlanks(txt, i + 1) ELSE i

\* compiledGiftPatterns, on the tokens of this model: marker, blanks, mention
\* or mention, blanks, marker.  The patterns that need the words "beer",
\* "give", "gift" match no text over these tokens.
isBeerGiving(txt) ==
    \E i \in DOMAIN txt :
        LET j == SkipBlanks(txt, i + 1)
        IN  /\ j <= Len(txt)
            /\ \/ txt[i] = "B" /\ txt[j] \in MentionTokens
               \/ txt[i] \in MentionTokens /\ txt[j] = "B"

\* extractRecipient: the first mention of the text, "" when there is none.
extractRecipient(txt) ==
    IF mentionIndices(txt) = {} THEN ""
    ELSE MentionID(txt[CHOOSE m \in mentionIndices(txt) :
             \A n \in mentionIndices(txt) : m <= n])

\* Tokens made of word characters: no \b falls between two of them.
WordTokens == NumeralTokens \cup {"W"}

RECURSIVE DigitsEnd(_, _)
\* \d+ from position i on: the last position of the digits in a row.
DigitsEnd(txt, i) ==
    IF i < Len(txt) /\ txt[i + 1] \in NumeralTokens THEN DigitsEnd(txt, i + 1) ELSE i

RECURSIVE Atoi(_, _, _)
\* strconv.Atoi of the digits from position i to position e.
Atoi(txt, i, e) ==
    IF e < i THEN 0 ELSE 10 * Atoi(txt, i, e - 1) + NumeralValue(txt[e])

\* Every match of \b(\d+)\b, whatever its value.
numeralMatchesAnyValue(txt) ==
    {i \in DOMAIN txt :
        /\ txt[i] \in NumeralTokens
        /\ (IF i = 1 THEN TRUE ELSE txt[i - 1] \notin WordTokens)
        /\ LET e == DigitsEnd(txt, i)
           IN (IF e = Len(txt) THEN TRUE ELSE txt[e + 1] \notin WordTokens)}

\* The matches of \b(\d+)\b that Atoi reads as a number from 1 to 10, by
\* their first position: digits in a row are one number, and a number matches
\* only with no word character before and after it.
numeralMatches(txt) ==
    {i \in DOMAIN txt :
        /\ txt[i] \in NumeralTokens
        /\ (IF i = 1 THEN TRUE ELSE txt[i - 1] \notin WordTokens)
        /\ LET e == DigitsEnd(txt, i)
           IN  /\ (IF e = Len(txt) THEN TRUE ELSE txt[e + 1] \notin WordTokens)
               /\ Atoi(txt, i, e) > 0 /\ Atoi(txt, i, e) <= 10}

\* extractQuantity: the first numeral between 1 and 10, else the number of
\* beer emoji when that is between 1 and 10, else 1.
extractQuantity(txt) ==
    LET N == numeralMatches(txt)
        beerCount == Cardinality(emojiIndices(txt))
    IN  IF N # {}
        THEN LET i == CHOOSE k \in N : \A j \in N : k <= j
             IN Atoi(txt, i, DigitsEnd(txt, i))
        ELSE IF beerCount > 0 /\ beerCount <= 10 THEN beerCount
        ELSE 1

\* The cap of processBeerGiving on the quantity of one message.
cappedQuantity(txt) ==
    IF extractQuantity(txt) > maxGift THEN maxGift ELSE extractQuantity(txt)

\* What handleMessage and processBeerGiving make of a text, the sender not
\* being mentioned in it: nothing, or one gift to the first mention.
beerGift(txt) ==
    IF ~isBeerGiving(txt) \/ extractRecipient(txt) = "" THEN << >>
    ELSE [r \in {extractRecipient(txt)} |-> cappedQuantity(txt)]

\* ------------------------------------------------------------------- time

\* A timestamp token "S.F" is the pair <<S, F>>, F the six fraction digits.
\* An instant is the pair <<seconds, nanoseconds>>.
SecondsPerDay == 86400

\* parseSlackTimestamp: seconds and the fraction padded to nanoseconds.
parseSlackTimestamp(ts) == <<ts[1], ts[2] * 1000>>

\* parseSlackTS: seconds precision.
parseSlackTS(ts) == <<ts[1], 0>>

\* A timestamp token as the text it is: pieces of digits ("10", "7"), a piece
\* that is no digit ("x") and the dot.
TsPieces == {"10", "7", "x", "."}

DigitPieces == [p \in {"10", "7"} |-> IF p = "10" THEN [len |-> 2, v |-> 10]
                                      ELSE [len |-> 1, v |-> 7]]

RECURSIVE DigitCount(_)
\* len(part) of a part made of digits.
DigitCount(part) ==
    IF part = << >> THEN 0
    ELSE DigitPieces[Head(part)].len + DigitCount(Tail(part))

RECURSIVE DigitsValue(_)
DigitsValue(part) ==
    IF part = << >> THEN 0
    ELSE LET front == SubSeq(part, 1, Len(part) - 1)
             last == DigitPieces[part[Len(part)]]
         IN DigitsValue(front) * 10 ^ last.len + last.v

\* strconv.ParseInt(part, 10, 64): an error on the empty text and on any
\* character that is no digit.
ParseInt(part) ==
    IF part = << >> \/ \E i \in DOMAIN part : part[i] \notin DOMAIN DigitPieces
    THEN [err |-> TRUE, v |-> 0]
    ELSE [err |-> FALSE, v |-> DigitsValue(part)]

\* strings.IndexByte(ts, '.'): the first dot, 0 when there is none.
IndexDot(ts) ==
    IF \A i \in DOMAIN ts : ts[i] # "." THEN 0
    ELSE CHOOSE i \in DOMAIN ts : ts[i] = "." /\ \A j \in 1..(i - 1) : ts[j] # "."

\* The fraction padded or cut to nine digits and parsed; 0 when that fails.
FracNanos(fracPart) ==
    IF fracPart = << >> \/ ParseInt(fracPart).err THEN 0
    ELSE IF DigitCount(fracPart) > 9
         THEN DigitsValue(fracPart) \div 10 ^ (DigitCount(fracPart) - 9)
         ELSE DigitsValue(fracPart) * 10 ^ (9 - DigitCount(fracPart))

\* parseSlackTimestamp on the text: (time, err).
parseSlackTimestampText(ts) ==
    LET idx == IndexDot(ts)
        secPart == IF idx > 0 THEN SubSeq(ts, 1, idx - 1) ELSE ts
        fracPart == IF idx > 0 THEN SubSeq(ts, idx + 1, Len(ts)) ELSE << >>
        secs == ParseInt(secPart)
    IN  IF secs.err THEN [err |-> TRUE, t |-> <<0, 0>>]
        ELSE [err |-> FALSE, t |-> <<secs.v, FracNanos(fracPart)>>]

\* The mutant: the zero time of the failed parse is used.
connEventTimeUnchecked(ts, clock) == parseSlackTimestampText(ts).t

\* The event time of buildEventHandler's AddBeer loop: the parsed time, and
\* time.Now() for an empty token and for one that does not parse.
connEventTime(ts, clock) ==
    IF ts # << >>
    THEN IF ~parseSlackTimestampText(ts).err THEN parseSlackTimestampText(ts).t
         ELSE clock
    ELSE clock

\* parseSlackTS on the text: the seconds before the first dot, time.Now() for
\* the empty token and when they do not parse.
parseSlackTSText(ts, clock) ==
    IF ts = << >> THEN clock
    ELSE LET idx == IndexDot(ts)
             first == IF idx > 0 THEN SubSeq(ts, 1, idx - 1) ELSE ts
             sec == ParseInt(first)
         IN IF sec.err THEN clock ELSE <<sec.v, 0>>

\* t.UTC().Format(time.RFC3339): the instant to the second.
FormatRFC3339(t) == t[1]

\* SQLite's date(): the UTC calendar day of a stored RFC3339 time.
DateOf(rfc) == rfc \div SecondsPerDay

\* time.Now().UTC().Format("2006-01-02")
Today(clock) == DateOf(FormatRFC3339(clock))

\* time.Parse("2006-01-02", date): midnight of that day.
ParseDate(date) == <<date * SecondsPerDay, 0>>

\* ------------------------------------------------------------------ store

\* INSERT OR IGNORE INTO processed_events (event_id, ts): the table after the
\* statement.  An existing row is left as it is.
TryMarkInsertReplace(pe, eventID, t) ==
    [k \in DOMAIN pe \cup {eventID} |->
        IF k = eventID THEN FormatRFC3339(t) ELSE pe[k]]

TryMarkInsert(pe, eventID, t) ==
    [k \in DOMAIN pe \cup {eventID} |->
        IF k \in DOMAIN pe THEN pe[k] ELSE FormatRFC3339(t)]

\* res.RowsAffected() of that statement, on the table before it.
RowsAffectedAlways(pe, eventID) == 1

RowsAffected(pe, eventID) == IF eventID \in DOMAIN pe THEN 0 ELSE 1

\* A row of the beers table is a record [id, giver_id, recipient_id, ts,
\* ts_rfc, count]; the table is the set of its rows.  id is the AUTOINCREMENT
\* primary key.
RECURSIVE MaxID(_)
MaxID(b) ==
    IF b = {} THEN 0
    ELSE LET r == CHOOSE x \in b : TRUE
             rest == MaxID(b \ {r})
         IN  IF r.id > rest THEN r.id ELSE rest

\* The rows that conflict with an insert under UNIQUE (giver_id, recipient_id, ts).
Conflicting(b, giverID, recipientID, slackTs) ==
    {r \in b : r.giver_id = giverID /\ r.recipient_id = recipientID /\ r.ts = slackTs}

\* AddBeer with the conflict clause summing the counts.
AddBeerInsertOnly(b, giverID, recipientID, slackTs, t, count) ==
    b \cup {[id |-> MaxID(b) + 1, giver_id |-> giverID,
              recipient_id |-> recipientID, ts |-> slackTs,
              ts_rfc |-> FormatRFC3339(t), count |-> count]}

AddBeerAccumulate(b, giverID, recipientID, slackTs, t, count) ==
    LET hit == Conflicting(b, giverID, recipientID, slackTs)
    IN  IF hit # {}
        THEN {IF r \in hit THEN [r EXCEPT !.count = r.count + count] ELSE r : r \in b}
        ELSE b \cup {[id |-> MaxID(b) + 1, giver_id |-> giverID,
                      recipient_id |-> recipientID, ts |-> slackTs,
                      ts_rfc |-> FormatRFC3339(t), count |-> count]}

\* AddBeer: INSERT ... ON CONFLICT(giver_id, recipient_id, ts) DO UPDATE SET
\* count = excluded.count, on a table that has the UNIQUE constraint.
AddBeer(b, giverID, recipientID, slackTs, t, count) ==
    LET hit == Conflicting(b, giverID, recipientID, slackTs)
    IN  IF hit # {}
        THEN {IF r \in hit THEN [r EXCEPT !.count = count] ELSE r : r \in b}
        ELSE b \cup {[id |-> MaxID(b) + 1, giver_id |-> giverID,
                      recipient_id |-> recipientID, ts |-> slackTs,
                      ts_rfc |-> FormatRFC3339(t), count |-> count]}

RECURSIVE SumCounts(_)
\* SUM(count) over a set of rows, COALESCEd to 0.
SumCounts(R) ==
    IF R = {} THEN 0
    ELSE LET r == CHOOSE x \in R : TRUE IN r.count + SumCounts(R \ {r})

\* A NULL column value.
Null == -1

\* date(x) BETWEEN date(start) AND date(end) on a stored ts_rfc; NULL is in
\* no range.
DateBetweenExclusiveEnd(rfc, start, end) ==
    /\ rfc # Null
    /\ DateOf(rfc) >= DateOf(FormatRFC3339(start))
    /\ DateOf(rfc) < DateOf(FormatRFC3339(end))

DateBetween(rfc, start, end) ==
    /\ rfc # Null
    /\ DateOf(rfc) >= DateOf(FormatRFC3339(start))
    /\ DateOf(rfc) <= DateOf(FormatRFC3339(end))

\* CountGivenInDateRange: SUM(count) of the giver's rows with
\* date(ts_rfc) BETWEEN date(start) AND date(end).
CountGivenInDateRange(b, giverID, start, end) ==
    SumCounts({r \in b : r.giver_id = giverID /\ DateBetween(r.ts_rfc, start, end)})

\* CountReceivedInDateRange: the same over the recipient's rows.
CountReceivedInDateRange(b, recipientID, start, end) ==
    SumCounts({r \in b :
        r.recipient_id = recipientID /\ DateBetween(r.ts_rfc, start, end)})

\* CountGivenOnDate(giver, "YYYY-MM-DD")
CountGivenOnDate(b, giverID, date) ==
    CountGivenInDateRange(b, giverID, ParseDate(date), ParseDate(date))

\* -------------------------------------------------------------- migration

\* The schema of the beers table as migrate looks at it: whether the table
\* exists, has the columns ts_rfc and count, and has a UNIQUE constraint.
NoTable == [exists |-> FALSE, ts_rfc |-> FALSE, count |-> FALSE, unique |-> FALSE]

\* desiredCreate
FullSchema == [exists |-> TRUE, ts_rfc |-> TRUE, count |-> TRUE, unique |-> TRUE]

\* The errors migrate wraps, one per statement.
MigrateErrors ==
    {"migrate exec", "migrate check beers exists", "migrate create beers",
     "migrate pragma", "migrate add ts_rfc", "migrate add count",
     "migrate select create sql", "migrate begin tx", "migrate create beers_new",
     "migrate copy aggregated", "migrate drop old beers", "migrate commit recreate"}

\* What migrate leaves: the schema, the rows and the error ("" is nil).
Left(sch, b, err) == [schema |-> sch, beers |-> b, err |-> err]

\* The keys (giver_id, recipient_id, ts) of a set of rows.
KeysOf(b) == {<<r.giver_id, r.recipient_id, r.ts>> : r \in b}

GroupOf(b, k) == Conflicting(b, k[1], k[2], k[3])

\* SUM(count) of a group; NULL counts are left out by SUM.
SumOfGroup(g) == SumCounts({r \in g : r.count # Null})

\* copyStmt: one row per key, COALESCE(SUM(count), COUNT(1)) as its count,
\* ts_rfc of a row of the group or, when that is NULL, the seconds of ts.
copyStmt(b) ==
    {LET g == GroupOf(b, k)
         first == CHOOSE r \in g : \A x \in g : r.id <= x.id
     IN  [id |-> Cardinality({j \in KeysOf(b) :
                     \E y \in GroupOf(b, j) : y.id < first.id /\ j # k}) + 1,
          giver_id |-> k[1], recipient_id |-> k[2], ts |-> k[3],
          ts_rfc |-> IF first.ts_rfc # Null THEN first.ts_rfc ELSE k[3][1],
          count |-> IF \A r \in g : r.count = Null THEN Cardinality(g)
                    ELSE SumOfGroup(g)]
     : k \in KeysOf(b)}

\* Whether CREATE TABLE beers fails inside the transaction: a table of that
\* name is there already, or the database fails.
txCreateFailsOnFaultOnly(sch, failAt) == failAt = "migrate create beers_new"

txCreateFails(sch, failAt) == sch.exists \/ failAt = "migrate create beers_new"

\* A rebuild that is entered on every run of migrate.
needsRebuildAlways(sch) == TRUE

\* !createSQL.Valid || !strings.Contains(strings.ToUpper(createSQL.String), "UNIQUE")
needsRebuild(sch) == ~sch.unique

\* DROP TABLE IF EXISTS beers: the table goes with the rows it holds.
dropTable(b) == {}

\* The rebuild inside the transaction.  A failed statement rolls back; after
\* the DROP no table of the name beers is left, and the RENAME's error is
\* ignored.
rebuild(sch, b, failAt) ==
    IF failAt = "migrate begin tx" THEN Left(sch, b, failAt)
    ELSE IF txCreateFails(sch, failAt) THEN Left(sch, b, "migrate create beers_new")
    ELSE IF failAt = "migrate copy aggregated" THEN Left(sch, b, failAt)
    ELSE IF failAt = "migrate drop old beers" THEN Left(sch, b, failAt)
    ELSE IF failAt = "migrate commit recreate" THEN Left(sch, b, failAt)
    ELSE Left(NoTable, dropTable(copyStmt(b)), "")

\* The mutant: the rows are lost with the change of the table.
addCountLosingRows(sch, b) == IF sch.count THEN b ELSE {}

\* ALTER TABLE beers ADD COLUMN count INTEGER NOT NULL DEFAULT 1, when the
\* column is missing: every row has the default.
addCount(sch, b) ==
    IF sch.count THEN b ELSE {[r EXCEPT !.count = 1] : r \in b}

\* migrate on the beers table; failAt names the statement the database fails
\* at, "" for none.
migrate(sch, b, failAt) ==
    IF failAt = "migrate exec" \/ failAt = "migrate check beers exists"
    THEN Left(sch, b, failAt)
    ELSE IF ~sch.exists
    THEN IF failAt = "migrate create beers" THEN Left(sch, b, failAt)
         ELSE Left(FullSchema, {}, "")
    ELSE IF failAt = "migrate pragma" THEN Left(sch, b, failAt)
    ELSE IF ~sch.ts_rfc /\ failAt = "migrate add ts_rfc" THEN Left(sch, b, failAt)
    ELSE LET sch1 == [sch EXCEPT !.ts_rfc = TRUE]
         IN  IF ~sch.count /\ failAt = "migrate add count" THEN Left(sch1, b, failAt)
             ELSE LET sch2 == [sch1 EXCEPT !.count = TRUE]
                      b2 == addCount(sch, b)
                  IN  IF failAt = "migrate select create sql"
                      THEN Left(sch2, b2, failAt)
                      ELSE IF needsRebuild(sch2) THEN rebuild(sch2, b2, failAt)
                      ELSE Left(sch2, b2, "")

\* NewSQLiteStore and main: the store is there only when migrate returned nil.
storeAfterIgnoringError(err) == "ok"

storeAfter(err) == IF err = "" THEN "ok" ELSE "failed"

\* ---------------------------------------------------------- event handlers

NoTs == <<0, 0>>

\* The event id of buildEventHandler: the envelope id, else msg|channel|user|ts.
eventIDOf(envelopeID, msg) ==
    IF envelopeID # ""
    THEN [kind |-> "envelope", id |-> envelopeID, channel |-> "", user |-> "", ts |-> NoTs]
    ELSE [kind |-> "msg", id |-> "", channel |-> msg.channel, user |-> msg.user,
          ts |-> msg.ts]

\* The dedup key of processBeerGiving: the envelope id, else the event timestamp.
dedupKeyOf(envelopeID, msg) ==
    IF envelopeID # ""
    THEN [kind |-> "envelope", id |-> envelopeID, channel |-> "", user |-> "", ts |-> NoTs]
    ELSE [kind |-> "ts", id |-> "", channel |-> "", user |-> "", ts |-> msg.ts]

\* What the handlers do with TryMarkEventProcessed's (ok, err): "error" and
\* "duplicate" return at once, "new" goes on.
MarkVerdictIgnoringError(err, ok) == IF ok \/ err THEN "new" ELSE "duplicate"

MarkVerdict(err, ok) ==
    IF err THEN "error" ELSE IF ~ok THEN "duplicate" ELSE "new"

\* The mutant: the handler goes on with an empty map.
parseOutcomeNoZeroTotal(txt) ==
    IF mentionIndices(txt) = {} THEN "no_mentions"
    ELSE IF emojiIndices(txt) = {} THEN "no_emoji"
    ELSE ""

\* The outcome of buildEventHandler's parse of a claimed event: "" when there
\* is something to give.
parseOutcome(txt) ==
    IF mentionIndices(txt) = {} THEN "no_mentions"
    ELSE IF emojiIndices(txt) = {} THEN "no_emoji"
    ELSE IF totalBeersToGive(recipientBeers(txt)) = 0 THEN "zero_total"
    ELSE ""

RECURSIVE ClipTo(_, _)
\* The first n units of a recipient -> count map (a partial admission).
ClipTo(rb, n) ==
    IF n <= 0 \/ DOMAIN rb = {} THEN << >>
    ELSE LET r == CHOOSE x \in DOMAIN rb : TRUE
             take == IF rb[r] <= n THEN rb[r] ELSE n
             others == ClipTo([x \in DOMAIN rb \ {r} |-> rb[x]], n - take)
         IN  [x \in DOMAIN others \cup {r} |-> IF x = r THEN take ELSE others[x]]

quotaDecisionClipping(givenToday, rb, max) ==
    LET total == totalBeersToGive(rb)
        allowed == max - givenToday
    IN  IF givenToday >= max
        THEN [outcome |-> "limit_reached", left |-> 0, give |-> << >>]
        ELSE IF total > allowed
        THEN [outcome |-> "exceeded_allowed", left |-> allowed, give |-> ClipTo(rb, allowed)]
        ELSE [outcome |-> "", left |-> allowed, give |-> rb]

quotaDecisionOffByOne(givenToday, rb, max) ==
    LET total == totalBeersToGive(rb)
        allowed == max - givenToday
    IN  IF givenToday > max
        THEN [outcome |-> "limit_reached", left |-> 0, give |-> << >>]
        ELSE IF total > allowed + 1
        THEN [outcome |-> "exceeded_allowed", left |-> allowed, give |-> << >>]
        ELSE [outcome |-> "", left |-> allowed, give |-> rb]

\* The quota check of buildEventHandler on the count read for today: the
\* outcome ("" is admitted), the units left that the notice states, and the
\* recipient -> count map the AddBeer loop then writes.
quotaDecision(givenToday, rb, max) ==
    LET total == totalBeersToGive(rb)
        allowed == max - givenToday
    IN  IF givenToday >= max
        THEN [outcome |-> "limit_reached", left |-> 0, give |-> << >>]
        ELSE IF total > allowed
        THEN [outcome |-> "exceeded_allowed", left |-> allowed, give |-> << >>]
        ELSE [outcome |-> "", left |-> allowed, give |-> rb]

\* ------------------------------------------------------------------ state

VARIABLES
    text,              \* the message text given to the association
    phase,             \* "input" before the association has run, "parsed" after
    result,            \* the recipient -> count map it produced
    gift,              \* what processBeerGiving makes of the text, once computed
    bot,               \* "connmgr": buildEventHandler, "minimal": MinimalSlackBot
    readOnly,          \* READ_ONLY of the MinimalSlackBot
    now,               \* the wall clock, an instant
    ticks,             \* midnights passed
    faults,            \* store calls that have failed
    processed_events,  \* the table: event id -> ts
    beers,             \* the table: the set of its rows
    pc,                \* per delivery: "idle", "quota", "add", "done"
    ev,                \* per delivery: the message event and its envelope id
    eventID,           \* per delivery: the dedup key it used
    marked,            \* per delivery: what TryMarkEventProcessed returned
    total,             \* per delivery: totalBeersToGive as the handler computed it
    givenToday,        \* per delivery: the count read for the quota check
    pending,           \* per delivery: recipient -> count still to be written
    wrote,             \* per delivery: recipient -> count its AddBeer calls stored
    failedAdds,        \* per delivery: recipients whose AddBeer call failed
    outcome,           \* per delivery: the outcome it was counted under
    posts,             \* the messages posted to Slack
    schema,            \* the schema of the beers table in the database file
    store,             \* "none" before NewSQLiteStore, then "ok" or "failed"
    mig,               \* what the last run of migrate returned
    serving,           \* the HTTP API and the event loop have been started
    lastAdd,           \* the last AddBeer call of the process
    lastCount,         \* the last Count...InDateRange call of the process
    before,            \* the rows of the table when the process started
    calls,             \* store calls made
    restarts           \* restarts of the process

assocVars == <<text, phase, result, gift>>

handlerVars ==
    <<bot, readOnly, now, ticks, faults, processed_events, beers, pc, ev,
      eventID, marked, total, givenToday, pending, wrote, failedAdds, outcome,
      posts>>

storeVars ==
    <<schema, store, mig, serving, lastAdd, lastCount, before, calls, restarts>>

VARIABLES
    ctxDone,           \* the root context has been cancelled
    sup,               \* where the loop of StartWithReconnection is
    isConnected,       \* SlackConnectionManager.isConnected
    reconnectCount,    \* SlackConnectionManager.reconnectCount
    slackGauge,        \* the slack_connected gauge
    conn,              \* socket clients created by the loop
    events,            \* per socket client: Hello events in its Events channel
    pe,                \* per socket client: where its processEvents goroutine is
    mon,               \* where the connection monitor is
    probes,            \* ticks of the monitor's ticker
    probeFailed,       \* the monitor's last API test failed
    hellos,            \* Hello events sent
    streak             \* failed attempts since the last established connection

supVars ==
    <<ctxDone, sup, isConnected, reconnectCount, slackGauge, conn, events, pe,
      mon, probes, probeFailed, hellos, streak>>

VARIABLES
    attempt,           \* the reconnectCount a delay is computed from
    delay              \* the delay computed, an int64 of nanoseconds

backoffVars == <<attempt, delay>>

VARIABLES
    wiring,            \* who built the mux: "main" (main.go) or "manager" (newMux)
    slackConnected,    \* main's local variable slackConnected
    link,              \* main's Socket Mode connection: "boot", "off", "up", "down"
    served,            \* health requests answered
    health,            \* the last health response
    req,               \* the last /api request
    resp               \* the response to it

httpVars == <<wiring, slackConnected, link, served, health, req, resp>>

extVars == <<supVars, backoffVars, httpVars>>

vars == <<assocVars, handlerVars, storeVars, extVars>>

Slots == 1..MaxDeliveries

channelID == "C1"

Envelopes == {"", "E1", "E2"}

\* The messages delivered: all plain top-level messages of U1 in the channel.
MsgOne == [channel |-> channelID, user |-> "U1", bot_id |-> "", subtype |-> "",
           ts |-> <<100, 1>>, thread_ts |-> NoTs, text |-> <<"M2", "S", "B">>]

MsgTwo == [channel |-> channelID, user |-> "U1", bot_id |-> "", subtype |-> "",
           ts |-> <<200, 2>>, thread_ts |-> NoTs,
           text |-> <<"M2", "S", "B", "M3", "S", "B">>]

MessagePool == {MsgOne, MsgTwo}

\* Other messages a workspace sends: an edit (a subtype), a reply in the thread
\* of MsgOne, a message of another channel, a gift to oneself, and a message
\* of another user in another channel that carries the timestamp of MsgOne.
MsgSub == [MsgOne EXCEPT !.subtype = "message_changed", !.ts = <<110, 1>>]

MsgReply == [MsgOne EXCEPT !.ts = <<120, 1>>, !.thread_ts = <<100, 1>>]

MsgOther == [MsgOne EXCEPT !.channel = "C2", !.ts = <<300, 3>>]

MsgSelf == [MsgOne EXCEPT !.ts = <<130, 1>>, !.text = <<"M1", "S", "B">>]

MsgPeer == [MsgOne EXCEPT !.channel = "C2", !.user = "U3"]

MixedPool == {MsgOne, MsgSub, MsgReply, MsgOther, MsgSelf, MsgPeer}

NoMsg == [channel |-> "", user |-> "", bot_id |-> "", subtype |-> "", ts |-> NoTs,
          thread_ts |-> NoTs, text |-> << >>]

NoKey == [kind |-> "none", id |-> "", channel |-> "", user |-> "", ts |-> NoTs]

\* An envelope id names one delivery attempt of one event: every delivery
\* under it carries the same message.  The ids are taken in order of first
\* use, "E1" before "E2".
EnvelopeOf(e, m) ==
    /\ e = "" \/ \A d \in Slots : ev[d].env = e => ev[d].msg = m
    /\ e = "E2" => \E d \in Slots : ev[d].env = "E1"

RECURSIVE TextsOfLen(_)
TextsOfLen(n) ==
    IF n = 0 THEN {<< >>}
    ELSE {Append(t, a) : t \in TextsOfLen(n - 1), a \in Alphabet}

Texts == UNION {TextsOfLen(n) : n \in 0..MaxLen}

\* "hey <@U1> B B <@U2> B" with the marker doubled after the first mention.
ExampleText == <<"W", "S", "M1", "S", "B", "B", "S", "M2", "S", "B">>

NoMig == [ran |-> FALSE, err |-> "", fault |-> FALSE]

NoAdd == [seq |-> 0, giver |-> "", recipient |-> "", ts |-> NoTs, t |-> NoTs,
          count |-> 0, err |-> FALSE, prev |-> 0, prevDate |-> Null]

NoCount == [seq |-> 0, op |-> "", user |-> "", start |-> NoTs, end |-> NoTs,
            ret |-> 0]

\* No handler has run and no store call has been made.
InitIdle ==
    /\ now = <<400, 0>>
    /\ ticks = 0
    /\ faults = 0
    /\ processed_events = << >>
    /\ pc = [d \in Slots |-> "idle"]
    /\ ev = [d \in Slots |-> [msg |-> NoMsg, env |-> ""]]
    /\ eventID = [d \in Slots |-> NoKey]
    /\ marked = [d \in Slots |-> "none"]
    /\ total = [d \in Slots |-> 0]
    /\ givenToday = [d \in Slots |-> -1]
    /\ pending = [d \in Slots |-> << >>]
    /\ wrote = [d \in Slots |-> << >>]
    /\ failedAdds = [d \in Slots |-> {}]
    /\ outcome = [d \in Slots |-> ""]
    /\ posts = {}
    /\ lastAdd = NoAdd
    /\ lastCount = NoCount
    /\ calls = 0
    /\ restarts = 0

Clients == 1..MaxConnections

\* No connection manager has been started.
SupIdle ==
    /\ ctxDone = FALSE
    /\ sup = "none"
    /\ isConnected = FALSE
    /\ reconnectCount = 0
    /\ slackGauge = FALSE
    /\ conn = 0
    /\ events = [c \in Clients |-> 0]
    /\ pe = [c \in Clients |-> "none"]
    /\ mon = "none"
    /\ probes = 0
    /\ probeFailed = FALSE
    /\ hellos = 0
    /\ streak = 0

\* ---- int64 arithmetic, on four 16-bit limbs, the most significant first

Limb == 65536

Zero64 == <<0, 0, 0, 0>>

One64 == <<0, 0, 0, 1>>

\* math.MinInt64 and math.MaxInt64
MinInt64 == <<32768, 0, 0, 0>>

MaxInt64 == <<32767, 65535, 65535, 65535>>

\* x + y in int64, wrapping.
Add64(x, y) ==
    LET a4 == x[4] + y[4]
        a3 == x[3] + y[3] + a4 \div Limb
        a2 == x[2] + y[2] + a3 \div Limb
        a1 == x[1] + y[1] + a2 \div Limb
    IN  <<a1 % Limb, a2 % Limb, a3 % Limb, a4 % Limb>>

RECURSIVE Mul64(_, _)
\* x * k in int64, wrapping, for a scalar k >= 0.
Mul64(x, k) ==
    IF k = 0 THEN Zero64
    ELSE CHOOSE r \in {IF k % 2 = 1 THEN Add64(twice, x) ELSE twice :
                          twice \in {Add64(half, half) :
                                        half \in {Mul64(x, k \div 2)}}} : TRUE

RECURSIVE Shl64(_, _)
\* x * 2^n in int64, wrapping.
Shl64(x, n) ==
    IF n = 0 THEN x
    ELSE CHOOSE r \in {Shl64(twice, n - 1) : twice \in {Add64(x, x)}} : TRUE

\* x < 0 in int64.
Neg64(x) == x[1] >= 32768

\* x > y in int64.
Greater64(x, y) ==
    IF Neg64(x) # Neg64(y) THEN Neg64(y)
    ELSE \E i \in 1..4 : x[i] > y[i] /\ \A j \in 1..(i - 1) : x[j] = y[j]

\* time.Second, nanoseconds.
Second == 1000000000

\* maxReconnectDelay = 5 * time.Minute
maxReconnectDelay == Mul64(Mul64(One64, 300), Second)

\* time.Duration(math.Pow(2, float64(n))): 2^n where int64 holds it; beyond,
\* the conversion gives what the platform gives, the smallest or the largest
\* int64.
powDuration(n) ==
    IF n <= 62 THEN {Shl64(One64, n)} ELSE {MinInt64, MaxInt64}

\* The delay of the loop for reconnectCount n: 2^n seconds in int64,
\* replaced by maxReconnectDelay when greater.
backoffDelay(n) ==
    {IF Greater64(Mul64(d, Second), maxReconnectDelay)
     THEN maxReconnectDelay ELSE Mul64(d, Second) : d \in powDuration(n)}

NoDelay == << >>

BackoffIdle == attempt = 0 /\ delay = NoDelay

\* No request, no response.
NoQuery == [user |-> "", day |-> ""]

NoRequest == [path |-> "", header |-> << >>, query |-> NoQuery]

NoResponse == [code |-> 0, ran |-> FALSE, read |-> "none", list |-> << >>, count |-> 0]

NoHealth == [path |-> "", code |-> 0, status |-> "", slack_connected |-> FALSE]

\* No HTTP server.
HttpIdle ==
    /\ wiring = "none"
    /\ slackConnected = FALSE
    /\ link = "none"
    /\ served = 0
    /\ health = NoHealth
    /\ req = NoRequest
    /\ resp = NoResponse

ExtIdle == SupIdle /\ BackoffIdle /\ HttpIdle

\* A new database file that migrate has set up.
InitLedger ==
    /\ InitIdle
    /\ beers = {}
    /\ before = {}
    /\ schema = FullSchema
    /\ mig = [ran |-> TRUE, err |-> "", fault |-> FALSE]
    /\ store = "ok"
    /\ serving = TRUE

\* The handlers start on it.
InitHandlers == InitLedger /\ ExtIdle

NoGift == [done |-> FALSE, give |-> << >>]

InitText ==
    /\ text = << >>
    /\ phase = "input"
    /\ result = << >>
    /\ gift = NoGift

InitConn == InitText /\ InitHandlers /\ bot = "connmgr" /\ readOnly = FALSE

InitMinimal == InitText /\ InitHandlers /\ bot = "minimal" /\ readOnly \in BOOLEAN

Init == InitConn \/ InitMinimal

\* UNIQUE (giver_id, recipient_id, ts) holds of a set of rows.
UniqueKeys(b) ==
    \A r1, r2 \in b :
        <<r1.giver_id, r1.recipient_id, r1.ts>> = <<r2.giver_id, r2.recipient_id, r2.ts>>
        => r1 = r2

\* The schemas of a beers table an earlier version of the program left.
LegacySchemas ==
    {sch \in [exists : {TRUE}, ts_rfc : BOOLEAN, count : BOOLEAN, unique : BOOLEAN] :
        sch # FullSchema}

RECURSIVE LegacyTables(_, _)
\* The tables of n rows under a legacy schema: gifts of U1 in the message
\* "100.000000", a column the schema lacks being NULL.
LegacyTables(n, sch) ==
    IF n = 0 THEN {{}}
    ELSE {T \cup {[id |-> n, giver_id |-> "U1", recipient_id |-> rc, ts |-> <<100, 0>>,
                   ts_rfc |-> IF sch.ts_rfc THEN 100 ELSE Null,
                   count |-> IF sch.count THEN c ELSE Null]} :
             T \in LegacyTables(n - 1, sch), rc \in {"U2", "U3"}, c \in 1..2}

\* The process starts on a database file: a new one, or one with a beers
\* table of an earlier version.
InitStore ==
    /\ InitText /\ InitIdle /\ ExtIdle
    /\ bot = "connmgr" /\ readOnly = FALSE
    /\ \/ schema = NoTable /\ beers = {}
       \/ \E sch \in LegacySchemas, n \in 0..MaxLegacyRows :
             /\ schema = sch
             /\ beers \in LegacyTables(n, sch)
             /\ sch.unique => UniqueKeys(beers)
    /\ before = beers
    /\ store = "none"
    /\ mig = NoMig
    /\ serving = FALSE

\* StartWithReconnection and startConnectionMonitor have been called on a
\* new SlackConnectionManager.
\* The manager as NewSlackConnectionManager returns it, its loop and the
\* monitor started.
SupStart ==
    /\ ctxDone = FALSE
    /\ sup = "top"
    /\ isConnected = FALSE
    /\ reconnectCount = 0
    /\ slackGauge = FALSE
    /\ conn = 0
    /\ events = [c \in Clients |-> 0]
    /\ pe = [c \in Clients |-> "none"]
    /\ mon = "wait"
    /\ probes = 0
    /\ probeFailed = FALSE
    /\ hellos = 0
    /\ streak = 0

InitSup ==
    /\ InitText /\ InitLedger
    /\ bot = "connmgr" /\ readOnly = FALSE
    /\ SupStart
    /\ BackoffIdle /\ HttpIdle

\* The process with its HTTP server listening: main with the bot not yet
\* created, or a manager behind the mux of newMux.
InitHealth ==
    /\ InitText /\ InitLedger
    /\ readOnly = FALSE
    /\ BackoffIdle
    /\ slackConnected = FALSE
    /\ served = 0
    /\ health = NoHealth
    /\ req = NoRequest
    /\ resp = NoResponse
    /\ \/ wiring = "main" /\ bot = "minimal" /\ link = "boot" /\ SupIdle
       \/ wiring = "manager" /\ bot = "connmgr" /\ link = "none" /\ SupStart

\* The ledgers the API is asked about: empty, one gift, two gifts on two days.
ApiLedgers ==
    LET one == AddBeer({}, "U1", "U2", <<100, 0>>, <<100, 0>>, 1)
    IN {{}, one,
        AddBeer(one, "U2", "U1", <<100 + SecondsPerDay, 0>>,
                <<100 + SecondsPerDay, 0>>, 2)}

\* The HTTP server listening on a migrated store, its mux built by main or by
\* newMux.
InitApi ==
    /\ InitText /\ InitIdle
    /\ beers \in ApiLedgers
    /\ before = beers
    /\ schema = FullSchema
    /\ mig = [ran |-> TRUE, err |-> "", fault |-> FALSE]
    /\ store = "ok"
    /\ serving = TRUE
    /\ readOnly = FALSE
    /\ SupIdle /\ BackoffIdle
    /\ \/ wiring = "main" /\ bot = "minimal"
       \/ wiring = "manager" /\ bot = "connmgr"
    /\ slackConnected = FALSE
    /\ link = "none"
    /\ served = 0
    /\ health = NoHealth
    /\ req = NoRequest
    /\ resp = NoResponse

\* The gifts the list queries are tried on: every pair of three users, one
\* message each.
ListGifts ==
    <<[g |-> "U1", r |-> "U2", ts |-> <<100, 1>>],
      [g |-> "U1", r |-> "U3", ts |-> <<110, 1>>],
      [g |-> "U2", r |-> "U1", ts |-> <<120, 1>>],
      [g |-> "U2", r |-> "U3", ts |-> <<130, 1>>],
      [g |-> "U3", r |-> "U1", ts |-> <<140, 1>>],
      [g |-> "U3", r |-> "U2", ts |-> <<150, 1>>]>>

RECURSIVE LedgerOf(_, _)
\* The ledger after AddBeer for the first n gifts of ListGifts that are in G.
LedgerOf(G, n) ==
    IF n = 0 THEN {}
    ELSE LET x == ListGifts[n]
             b == LedgerOf(G, n - 1)
         IN IF n \in G
            THEN AddBeer(b, x.g, x.r, x.ts, parseSlackTimestamp(x.ts), 1)
            ELSE b

ListLedgers == {LedgerOf(G, Len(ListGifts)) : G \in SUBSET DOMAIN ListGifts}

\* The HTTP server on a store that holds any of these ledgers.
InitLists ==
    /\ InitText /\ InitIdle
    /\ beers \in ListLedgers
    /\ before = beers
    /\ schema = FullSchema
    /\ mig = [ran |-> TRUE, err |-> "", fault |-> FALSE]
    /\ store = "ok"
    /\ serving = TRUE
    /\ readOnly = FALSE
    /\ SupIdle /\ BackoffIdle
    /\ \/ wiring = "main" /\ bot = "minimal"
       \/ wiring = "manager" /\ bot = "connmgr"
    /\ slackConnected = FALSE
    /\ link = "none"
    /\ served = 0
    /\ health = NoHealth
    /\ req = NoRequest
    /\ resp = NoResponse

\* The loop is about to compute its delay, after any number of failures.
InitBackoff ==
    /\ InitText /\ InitLedger /\ SupIdle /\ HttpIdle
    /\ bot = "connmgr" /\ readOnly = FALSE
    /\ attempt \in 0..MaxCount
    /\ delay = NoDelay

InitAssoc ==
    /\ text \in Texts \cup {ExampleText}
    /\ phase = "input"
    /\ result = << >>
    /\ gift = NoGift
    /\ InitHandlers /\ bot = "connmgr" /\ readOnly = FALSE

\* Texts of digits, a word, blanks, beer emoji and a mention, and texts that
\* end in many beer emoji.
QuantityAlphabet == NumeralTokens \cup {"W", "S", "B", "M1"}

RECURSIVE QuantityTextsOfLen(_)
QuantityTextsOfLen(n) ==
    IF n = 0 THEN {<< >>}
    ELSE {Append(t, a) : t \in QuantityTextsOfLen(n - 1), a \in QuantityAlphabet}

EmojiRun(k) == [i \in 1..k |-> "B"]

QuantityTexts ==
    UNION {QuantityTextsOfLen(n) : n \in 0..MaxQLen}
        \cup {head \o EmojiRun(k) :
                 head \in {<<"M1", "S">>, <<"N1", "N2", "S">>, <<"N2", "S", "M1">>},
                 k \in 0..MaxEmoji}

InitQuantity ==
    /\ text \in QuantityTexts
    /\ phase = "input"
    /\ result = << >>
    /\ gift = NoGift
    /\ InitHandlers /\ bot = "minimal" /\ readOnly = FALSE

RECURSIVE TsTextsOfLen(_)
TsTextsOfLen(n) ==
    IF n = 0 THEN {<< >>}
    ELSE {Append(t, a) : t \in TsTextsOfLen(n - 1), a \in TsPieces}

\* The timestamp tokens tried: every text of up to MaxTsPieces pieces.
TsTexts == UNION {TsTextsOfLen(n) : n \in 0..MaxTsPieces}

\* ---------------------------------------------------------------- actions

\* The association step of the handler, on its own.
Associate ==
    /\ phase = "input"
    /\ phase' = "parsed"
    /\ result' = recipientBeers(text)
    /\ UNCHANGED <<text, gift, handlerVars, storeVars, extVars>>

\* The parse of handleMessage and processBeerGiving, on its own.
Extract ==
    /\ ~gift.done
    /\ gift' = [done |-> TRUE, give |-> beerGift(text)]
    /\ UNCHANGED <<text, phase, result, handlerVars, storeVars, extVars>>

\* A delivery may start while earlier ones are still in their handler: every
\* (re)connect starts a processEvents goroutine of its own.  Slots are used in
\* order.
CanStart(d) == pc[d] = "idle" /\ (IF d = 1 THEN TRUE ELSE pc[d - 1] # "idle")

\* ev.Channel == channelID && ev.User != "" and no subtype.
wantsMessage(m) == m.channel = channelID /\ m.user # "" /\ m.subtype = ""

\* A delivery the handler returns from before it computes a key: the message
\* is kept for the record, nothing else is touched.
Ignore(d, m, e, counted) ==
    /\ ev' = [ev EXCEPT ![d] = [msg |-> m, env |-> e]]
    /\ pc' = [pc EXCEPT ![d] = "done"]
    /\ outcome' = [outcome EXCEPT ![d] = counted]
    /\ UNCHANGED <<eventID, marked, processed_events, faults, total, pending, posts>>

\* eventTime of the AddBeer loop: the parsed timestamp, the clock without one.
eventTimeOf(ts, clock) == IF ts = NoTs THEN clock ELSE parseSlackTimestamp(ts)

\* buildEventHandler from the arrival of a message event to its return or to
\* the quota check: event id, TryMarkEventProcessed, the association.
ConnHandle(d, pool) ==
    /\ bot = "connmgr"
    /\ CanStart(d)
    /\ \E m \in pool, e \in Envelopes, err \in BOOLEAN :
        /\ EnvelopeOf(e, m)
        /\ err => faults < MaxFaults
        /\ LET id == eventIDOf(e, m)
               ok == RowsAffected(processed_events, id) > 0
               verdict == MarkVerdict(err, ok)
               po == parseOutcome(m.text)
               stop == verdict # "new" \/ po # ""
           IN  IF ~wantsMessage(m)
               THEN /\ ~err
                    /\ Ignore(d, m, e, IF m.channel = channelID /\ m.user # ""
                                       THEN "subtype" ELSE "ignored")
               ELSE
               /\ ev' = [ev EXCEPT ![d] = [msg |-> m, env |-> e]]
               /\ eventID' = [eventID EXCEPT ![d] = id]
               /\ marked' = [marked EXCEPT ![d] =
                      IF err THEN "err" ELSE IF ok THEN "true" ELSE "false"]
               /\ processed_events' =
                      IF err THEN processed_events
                      ELSE TryMarkInsert(processed_events, id, now)
               /\ faults' = IF err THEN faults + 1 ELSE faults
               /\ pc' = [pc EXCEPT ![d] = IF stop THEN "done" ELSE "quota"]
               /\ outcome' = [outcome EXCEPT ![d] =
                      IF verdict = "error" THEN "event_mark_error"
                      ELSE IF verdict = "duplicate" THEN "duplicate"
                      ELSE po]
               /\ total' = [total EXCEPT ![d] =
                      IF verdict = "new" /\ po \in {"", "zero_total"}
                      THEN totalBeersToGive(recipientBeers(m.text)) ELSE 0]
               /\ UNCHANGED <<pending, posts>>
    /\ UNCHANGED <<extVars, assocVars, storeVars, bot, readOnly, now, ticks, beers, givenToday,
                   wrote, failedAdds>>

\* A message event of the channel's usual traffic arrives.
ConnDeliver(d) == ConnHandle(d, MessagePool)

\* A message event of any kind arrives.
ConnReceive(d) == ConnHandle(d, MixedPool)

\* buildEventHandler: CountGivenOnDate, the quota check and its notice.
ConnQuota(d) ==
    /\ bot = "connmgr"
    /\ pc[d] = "quota"
    /\ \E err \in BOOLEAN :
        /\ err => faults < MaxFaults
        /\ LET m == ev[d].msg
               g == CountGivenOnDate(beers, m.user, Today(now))
               dec == quotaDecision(g, recipientBeers(m.text), maxPerDay)
           IN  IF err
               THEN /\ faults' = faults + 1
                    /\ outcome' = [outcome EXCEPT ![d] = "count_error"]
                    /\ pc' = [pc EXCEPT ![d] = "done"]
                    /\ UNCHANGED <<givenToday, pending, posts>>
               ELSE /\ faults' = faults
                    /\ givenToday' = [givenToday EXCEPT ![d] = g]
                    /\ outcome' = [outcome EXCEPT ![d] = dec.outcome]
                    /\ posts' = IF dec.outcome = "" THEN posts
                                ELSE posts \cup {[by |-> d, kind |-> dec.outcome,
                                                  n |-> dec.left]}
                    /\ pending' = [pending EXCEPT ![d] = dec.give]
                    /\ pc' = [pc EXCEPT ![d] =
                           IF DOMAIN dec.give = {} THEN "done" ELSE "add"]
    /\ UNCHANGED <<extVars, assocVars, storeVars, bot, readOnly, now, ticks, processed_events, beers,
                   ev, eventID, marked, total, wrote, failedAdds>>

\* buildEventHandler: one turn of the AddBeer loop; the map is ranged over in
\* any order.  After the last one the message is counted as stored.
ConnAddBeer(d) ==
    /\ bot = "connmgr"
    /\ pc[d] = "add"
    /\ \E r \in DOMAIN pending[d], err \in BOOLEAN :
        /\ err => faults < MaxFaults
        /\ LET m == ev[d].msg
               count == pending[d][r]
               rest == [x \in DOMAIN pending[d] \ {r} |-> pending[d][x]]
           IN  /\ faults' = IF err THEN faults + 1 ELSE faults
               /\ beers' = IF err THEN beers
                           ELSE AddBeer(beers, m.user, r, m.ts,
                                        eventTimeOf(m.ts, now), count)
               /\ wrote' = IF err THEN wrote
                           ELSE [wrote EXCEPT ![d] =
                                    [x \in DOMAIN wrote[d] \cup {r} |->
                                        IF x = r THEN count ELSE wrote[d][x]]]
               /\ failedAdds' = IF err
                                THEN [failedAdds EXCEPT ![d] = failedAdds[d] \cup {r}]
                                ELSE failedAdds
               /\ pending' = [pending EXCEPT ![d] = rest]
               /\ pc' = [pc EXCEPT ![d] = IF DOMAIN rest = {} THEN "done" ELSE "add"]
               /\ outcome' = [outcome EXCEPT ![d] =
                      IF DOMAIN rest = {} /\ outcome[d] = "" THEN "stored"
                      ELSE outcome[d]]
    /\ UNCHANGED <<extVars, assocVars, storeVars, bot, readOnly, now, ticks, processed_events, ev,
                   eventID, marked, total, givenToday, posts>>

\* handleMessage's early returns: a bot's message, an empty text, a subtype, a
\* reply in a thread.
skipsMessage(m) ==
    \/ m.bot_id # "" \/ m.text = << >> \/ m.subtype # ""
    \/ m.thread_ts # NoTs /\ m.thread_ts # m.ts

\* handleMessage and processBeerGiving from the arrival of a message event to
\* its return or to the AddBeer call.
MinHandle(d, pool) ==
    /\ bot = "minimal"
    /\ CanStart(d)
    /\ \E m \in pool, e \in Envelopes, err \in BOOLEAN :
        /\ EnvelopeOf(e, m)
        /\ err => faults < MaxFaults
        /\ LET id == dedupKeyOf(e, m)
               ok == RowsAffected(processed_events, id) > 0
               verdict == MarkVerdict(err, ok)
               recipient == extractRecipient(m.text)
               quantity == cappedQuantity(m.text)
               res == IF verdict = "error" THEN "error"
                      ELSE IF verdict = "duplicate" THEN "duplicate"
                      ELSE IF recipient = "" THEN "invalid_recipient"
                      ELSE IF recipient = m.user THEN "self_gift"
                      ELSE IF readOnly THEN "success"
                      ELSE ""
           IN  IF skipsMessage(m) \/ ~isBeerGiving(m.text)
               THEN /\ ~err
                    /\ Ignore(d, m, e, "ignored")
               ELSE
               /\ ev' = [ev EXCEPT ![d] = [msg |-> m, env |-> e]]
               /\ eventID' = [eventID EXCEPT ![d] = id]
               /\ marked' = [marked EXCEPT ![d] =
                      IF err THEN "err" ELSE IF ok THEN "true" ELSE "false"]
               /\ processed_events' =
                      IF err THEN processed_events
                      ELSE TryMarkInsert(processed_events, id, parseSlackTS(m.ts))
               /\ faults' = IF err THEN faults + 1 ELSE faults
               /\ outcome' = [outcome EXCEPT ![d] = res]
               /\ pc' = [pc EXCEPT ![d] = IF res = "" THEN "add" ELSE "done"]
               /\ pending' = [pending EXCEPT ![d] =
                      IF res = "" THEN [x \in {recipient} |-> quantity] ELSE << >>]
               /\ posts' =
                      IF res \in {"invalid_recipient", "self_gift"}
                      THEN posts \cup {[by |-> d, kind |-> "ephemeral", n |-> 0]}
                      ELSE IF res = "success"
                      THEN posts \cup {[by |-> d, kind |-> "confirmation", n |-> quantity]}
                      ELSE posts
               /\ UNCHANGED total
    /\ UNCHANGED <<extVars, assocVars, storeVars, bot, readOnly, now, ticks, beers, givenToday,
                   wrote, failedAdds>>

\* A message event of the channel's usual traffic arrives.
MinDeliver(d) == MinHandle(d, MessagePool)

\* A message event of any kind arrives.
MinReceive(d) == MinHandle(d, MixedPool)

\* processBeerGiving: the AddBeer call, then the outcome and the confirmation.
MinAddBeer(d) ==
    /\ bot = "minimal"
    /\ pc[d] = "add"
    /\ \E r \in DOMAIN pending[d], err \in BOOLEAN :
        /\ err => faults < MaxFaults
        /\ LET m == ev[d].msg
               quantity == pending[d][r]
           IN  /\ faults' = IF err THEN faults + 1 ELSE faults
               /\ beers' = IF err THEN beers
                           ELSE AddBeer(beers, m.user, r, m.ts, parseSlackTS(m.ts),
                                        quantity)
               /\ wrote' = IF err THEN wrote
                           ELSE [wrote EXCEPT ![d] = [x \in {r} |-> quantity]]
               /\ failedAdds' = IF err THEN [failedAdds EXCEPT ![d] = {r}]
                                ELSE failedAdds
               /\ outcome' = [outcome EXCEPT ![d] = IF err THEN "error" ELSE "success"]
               /\ posts' = IF err THEN posts
                           ELSE posts \cup {[by |-> d, kind |-> "confirmation",
                                             n |-> quantity]}
               /\ pending' = [pending EXCEPT ![d] = << >>]
               /\ pc' = [pc EXCEPT ![d] = "done"]
    /\ UNCHANGED <<extVars, assocVars, storeVars, bot, readOnly, now, ticks, processed_events, ev,
                   eventID, marked, total, givenToday>>

\* Midnight passes.
Tick ==
    /\ ticks < MaxTicks
    /\ ticks' = ticks + 1
    /\ now' = <<now[1] + SecondsPerDay, now[2]>>
    /\ UNCHANGED <<extVars, assocVars, storeVars, bot, readOnly, faults, processed_events, beers, pc,
                   ev, eventID, marked, total, givenToday, pending, wrote,
                   failedAdds, outcome, posts>>

\* NewSQLiteStore as main calls it: migrate, and the store only without error.
NewSQLiteStore ==
    /\ store = "none"
    /\ \E failAt \in MigrateErrors \cup {""} :
        LET res == migrate(schema, beers, failAt)
        IN  /\ failAt # "" =>
                   /\ faults < MaxFaults
                   /\ res.err = failAt
                   /\ migrate(schema, beers, "").err # failAt
            /\ schema' = res.schema
            /\ beers' = res.beers
            /\ mig' = [ran |-> TRUE, err |-> res.err, fault |-> failAt # ""]
            /\ store' = storeAfter(res.err)
            /\ faults' = IF failAt # "" THEN faults + 1 ELSE faults
    /\ UNCHANGED <<extVars, assocVars, bot, readOnly, now, ticks, processed_events, pc, ev,
                   eventID, marked, total, givenToday, pending, wrote, failedAdds,
                   outcome, posts, serving, lastAdd, lastCount, before, calls,
                   restarts>>

\* main after the store is there: the HTTP API and the Slack bot are started.
Serve ==
    /\ store = "ok"
    /\ ~serving
    /\ serving' = TRUE
    /\ UNCHANGED <<extVars, assocVars, handlerVars, schema, store, mig, lastAdd, lastCount,
                   before, calls, restarts>>

\* The process ends (logger.Fatal, or a stop) and is started again on the
\* same database file.
Restart ==
    /\ store # "none"
    /\ restarts < MaxRestarts
    /\ restarts' = restarts + 1
    /\ store' = "none"
    /\ mig' = NoMig
    /\ serving' = FALSE
    /\ lastAdd' = NoAdd
    /\ lastCount' = NoCount
    /\ before' = beers
    /\ UNCHANGED <<extVars, assocVars, handlerVars, schema, calls>>

\* The instants AddBeer is called with, on two UTC days.
AddInstants == {<<100, 0>>, <<100 + SecondsPerDay, 0>>}

\* The instants the windows of the Count calls are made of, on the same days.
QueryInstants == {<<200, 0>>, <<50 + SecondsPerDay, 0>>}

\* A call of AddBeer on the store.  The statement fails on a table without
\* the UNIQUE constraint its conflict clause names.
StoreAddBeer ==
    /\ serving
    /\ calls < MaxCalls
    /\ \E rc \in {"U2", "U3"}, t \in AddInstants, c \in 1..2, err \in BOOLEAN :
        LET hit == Conflicting(beers, "U1", rc, <<100, 0>>)
            fails == err \/ ~schema.exists \/ ~schema.unique
        IN  /\ err => faults < MaxFaults
            /\ faults' = IF err THEN faults + 1 ELSE faults
            /\ beers' = IF fails THEN beers
                        ELSE AddBeer(beers, "U1", rc, <<100, 0>>, t, c)
            /\ lastAdd' = [seq |-> calls + 1, giver |-> "U1", recipient |-> rc,
                           ts |-> <<100, 0>>, t |-> t, count |-> c, err |-> fails,
                           prev |-> IF hit = {} THEN 0
                                    ELSE (CHOOSE r \in hit : TRUE).count,
                           prevDate |-> IF hit = {} THEN Null
                                        ELSE DateOf((CHOOSE r \in hit : TRUE).ts_rfc)]
    /\ calls' = calls + 1
    /\ UNCHANGED <<extVars, assocVars, bot, readOnly, now, ticks, processed_events, pc, ev,
                   eventID, marked, total, givenToday, pending, wrote, failedAdds,
                   outcome, posts, schema, store, mig, serving, lastCount, before,
                   restarts>>

\* A call of CountGivenInDateRange or CountReceivedInDateRange on the store.
StoreCount ==
    /\ serving
    /\ calls < MaxCalls
    /\ \E op \in {"CountGivenInDateRange", "CountReceivedInDateRange"},
          u \in {"U1", "U2"}, start \in QueryInstants, end \in QueryInstants :
        lastCount' = [seq |-> calls + 1, op |-> op, user |-> u, start |-> start,
                      end |-> end,
                      ret |-> IF op = "CountGivenInDateRange"
                              THEN CountGivenInDateRange(beers, u, start, end)
                              ELSE CountReceivedInDateRange(beers, u, start, end)]
    /\ calls' = calls + 1
    /\ UNCHANGED <<extVars, assocVars, handlerVars, schema, store, mig, serving, lastAdd,
                   before, restarts>>

\* ------------------------------------------------- the connection manager

\* Everything but the connection manager's state.
restSup == <<assocVars, handlerVars, storeVars, backoffVars, httpVars>>

\* setConnected: the tracked state and the slack_connected gauge.
setConnected(connected) == [isConnected |-> connected, gauge |-> connected]

\* scm.reconnectCount++ after a failed attempt.
afterFailure(n) == n + 1

afterConnectedKept(n) == n

\* scm.reconnectCount = 0 after setConnected(true).
afterConnected(n) == 0

\* The root context is cancelled.
Cancel ==
    /\ sup # "none"
    /\ ~ctxDone
    /\ ctxDone' = TRUE
    /\ UNCHANGED <<restSup, sup, isConnected, reconnectCount, slackGauge, conn,
                   events, pe, mon, probes, probeFailed, hellos, streak>>

\* The head of the loop: select on ctx.Done() with a default, then the
\* choice between waiting and connecting at once.
SupTop ==
    /\ sup = "top"
    /\ sup' = IF ctxDone THEN "stopped"
              ELSE IF reconnectCount > 0 THEN "wait" ELSE "test"
    /\ UNCHANGED <<restSup, ctxDone, isConnected, reconnectCount, slackGauge, conn,
                   events, pe, mon, probes, probeFailed, hellos, streak>>

\* select on time.After(delay) and ctx.Done(): the timer, or the return.
SupWait ==
    /\ sup = "wait"
    /\ \/ sup' = "test"
       \/ ctxDone /\ sup' = "stopped"
    /\ UNCHANGED <<restSup, ctxDone, isConnected, reconnectCount, slackGauge, conn,
                   events, pe, mon, probes, probeFailed, hellos, streak>>

\* TestConnection returns an error, as it does under a cancelled context.
SupTestFailed ==
    /\ sup = "test"
    /\ ctxDone \/ reconnectCount < MaxAttempts
    /\ reconnectCount' = afterFailure(reconnectCount)
    /\ streak' = streak + 1
    /\ sup' = "top"
    /\ UNCHANGED <<restSup, ctxDone, isConnected, slackGauge, conn, events, pe, mon,
                   probes, probeFailed, hellos>>

\* TestConnection returns nil.
SupTestPassed ==
    /\ sup = "test"
    /\ ~ctxDone
    /\ conn < MaxConnections
    /\ sup' = "connect"
    /\ UNCHANGED <<restSup, ctxDone, isConnected, reconnectCount, slackGauge, conn,
                   events, pe, mon, probes, probeFailed, hellos, streak>>

\* A new socket client, setConnected(true), the counter reset, and the
\* processEvents goroutine of the client started.
SupConnect ==
    /\ sup = "connect"
    /\ conn' = conn + 1
    /\ isConnected' = setConnected(TRUE).isConnected
    /\ slackGauge' = setConnected(TRUE).gauge
    /\ reconnectCount' = afterConnected(reconnectCount)
    /\ streak' = 0
    /\ pe' = [pe EXCEPT ![conn + 1] = "recv"]
    /\ sup' = "run"
    /\ UNCHANGED <<restSup, ctxDone, events, mon, probes, probeFailed, hellos>>

\* RunContext returns an error while the context is live: the connection
\* is lost and the loop goes round.
SupRunFailed ==
    /\ sup = "run"
    /\ ~ctxDone
    /\ reconnectCount < MaxAttempts
    /\ isConnected' = setConnected(FALSE).isConnected
    /\ slackGauge' = setConnected(FALSE).gauge
    /\ reconnectCount' = afterFailure(reconnectCount)
    /\ streak' = streak + 1
    /\ sup' = "top"
    /\ UNCHANGED <<restSup, ctxDone, conn, events, pe, mon, probes, probeFailed,
                   hellos>>

\* RunContext returns nil.
SupRunStopped ==
    /\ sup = "run"
    /\ ~ctxDone
    /\ isConnected' = setConnected(FALSE).isConnected
    /\ slackGauge' = setConnected(FALSE).gauge
    /\ sup' = "top"
    /\ UNCHANGED <<restSup, ctxDone, reconnectCount, conn, events, pe, mon, probes,
                   probeFailed, hellos, streak>>

\* RunContext returns under the cancelled context: setConnected(false) and
\* the return from the loop.
SupRunCancelled ==
    /\ sup = "run"
    /\ ctxDone
    /\ isConnected' = setConnected(FALSE).isConnected
    /\ slackGauge' = setConnected(FALSE).gauge
    /\ sup' = "stopped"
    /\ UNCHANGED <<restSup, ctxDone, reconnectCount, conn, events, pe, mon, probes,
                   probeFailed, hellos, streak>>

\* The running socket client puts a Hello event into its Events channel.
SocketHello ==
    /\ sup = "run"
    /\ ~ctxDone
    /\ hellos < MaxHellos
    /\ events[conn] = 0
    /\ events' = [events EXCEPT ![conn] = 1]
    /\ hellos' = hellos + 1
    /\ UNCHANGED <<restSup, ctxDone, sup, isConnected, reconnectCount, slackGauge,
                   conn, pe, mon, probes, probeFailed, streak>>

\* processEvents of client c takes an event from the channel.  The range
\* over the channel has no other way on: nothing in the program closes it.
ProcReceive(c) ==
    /\ pe[c] = "recv"
    /\ events[c] > 0
    /\ events' = [events EXCEPT ![c] = events[c] - 1]
    /\ pe' = [pe EXCEPT ![c] = "hello"]
    /\ UNCHANGED <<restSup, ctxDone, sup, isConnected, reconnectCount, slackGauge,
                   conn, mon, probes, probeFailed, hellos, streak>>

\* processEvents of client c on the Hello event: setConnected(true).
ProcHello(c) ==
    /\ pe[c] = "hello"
    /\ isConnected' = setConnected(TRUE).isConnected
    /\ slackGauge' = setConnected(TRUE).gauge
    /\ pe' = [pe EXCEPT ![c] = "recv"]
    /\ UNCHANGED <<restSup, ctxDone, sup, reconnectCount, conn, events, mon, probes,
                   probeFailed, hellos, streak>>

\* The monitor's ticker fires: IsConnected is read, and the API is tested
\* only when it says connected.
MonTick ==
    /\ mon = "wait"
    /\ probes < MaxProbes
    /\ probes' = probes + 1
    /\ mon' = IF isConnected THEN "probe" ELSE "wait"
    /\ UNCHANGED <<restSup, ctxDone, sup, isConnected, reconnectCount, slackGauge,
                   conn, events, pe, probeFailed, hellos, streak>>

\* The monitor's TestConnection returns: an error is logged, nothing else.
MonProbe ==
    /\ mon = "probe"
    /\ \E ok \in BOOLEAN :
        /\ ctxDone => ~ok
        /\ probeFailed' = ~ok
    /\ mon' = "wait"
    /\ UNCHANGED <<restSup, ctxDone, sup, isConnected, reconnectCount, slackGauge,
                   conn, events, pe, probes, hellos, streak>>

\* The monitor returns on ctx.Done().
MonStop ==
    /\ mon = "wait"
    /\ ctxDone
    /\ mon' = "stopped"
    /\ UNCHANGED <<restSup, ctxDone, sup, isConnected, reconnectCount, slackGauge,
                   conn, events, pe, probes, probeFailed, hellos, streak>>

\* The accesses to the manager's fields that a goroutine makes in its next
\* step: the field, whether it is written, and whether scm.mu is held.
Access(f, w, mu) == [field |-> f, write |-> w, mu |-> mu]

\* The reconnect loop: the counter is read for the delay, incremented and
\* reset, and the socket client replaced and run, all outside the mutex;
\* setConnected takes it.
SupAccesses ==
    CASE sup = "top" -> {Access("reconnectCount", FALSE, FALSE)}
      [] sup = "test" -> {Access("reconnectCount", TRUE, FALSE)}
      [] sup = "connect" ->
            {Access("socketClient", TRUE, FALSE), Access("isConnected", TRUE, TRUE),
             Access("lastPing", TRUE, TRUE), Access("reconnectCount", FALSE, TRUE),
             Access("reconnectCount", TRUE, FALSE)}
      [] sup = "run" ->
            {Access("socketClient", FALSE, FALSE), Access("isConnected", TRUE, TRUE),
             Access("reconnectCount", TRUE, FALSE)}
      [] OTHER -> {}

\* processEvents of client c: lastPing under the mutex on every event, and
\* setConnected(true) on a Hello, which logs the counter.
ProcAccesses(c) ==
    CASE pe[c] = "recv" /\ events[c] > 0 -> {Access("lastPing", TRUE, TRUE)}
      [] pe[c] = "hello" ->
            {Access("isConnected", TRUE, TRUE), Access("lastPing", TRUE, TRUE),
             Access("reconnectCount", FALSE, TRUE)}
      [] OTHER -> {}

\* The monitor: IsConnected.
MonAccesses ==
    IF mon = "wait" /\ probes < MaxProbes THEN {Access("isConnected", FALSE, TRUE)}
    ELSE {}

NextSup ==
    \/ Cancel
    \/ SupTop
    \/ SupWait
    \/ SupTestFailed
    \/ SupTestPassed
    \/ SupConnect
    \/ SupRunFailed
    \/ SupRunStopped
    \/ SupRunCancelled
    \/ SocketHello
    \/ \E c \in Clients : ProcReceive(c)
    \/ \E c \in Clients : ProcHello(c)
    \/ MonTick
    \/ MonProbe
    \/ MonStop

\* The loop computes the delay for its reconnectCount.
Backoff ==
    /\ delay = NoDelay
    /\ delay' \in backoffDelay(attempt)
    /\ UNCHANGED <<assocVars, handlerVars, storeVars, supVars, httpVars, attempt>>

NextBackoff == Backoff

\* ---------------------------------------------------------- HTTP API

\* API_TOKEN, which holds no blank.
apiToken == <<"tok">>

\* What an Authorization header is made of: words without a blank, and the
\* blank.
HeaderPieces == {"Bearer", "bearer", "tok", "bad", " "}

RECURSIVE HeadersUpTo(_)
HeadersUpTo(n) ==
    IF n = 0 THEN {<< >>}
    ELSE LET shorter == HeadersUpTo(n - 1)
         IN shorter \cup {Append(h, p) : h \in shorter, p \in HeaderPieces}

Headers == HeadersUpTo(MaxHeader)

RECURSIVE Split(_)
\* strings.Split(h, " "): the parts between the blanks, empty parts kept.
Split(h) ==
    IF \A i \in 1..Len(h) : h[i] # " " THEN <<h>>
    ELSE LET i == CHOOSE k \in 1..Len(h) :
                      h[k] = " " /\ \A j \in 1..(k - 1) : h[j] # " "
         IN <<SubSeq(h, 1, i - 1)>> \o Split(SubSeq(h, i + 1, Len(h)))

\* authMiddleware: whether the request is passed on to the handler.
Authorized(token, authHeader) ==
    IF authHeader = << >> THEN FALSE
    ELSE LET bearerToken == Split(authHeader)
         IN  IF Len(bearerToken) # 2 \/ bearerToken[1] # <<"Bearer">> THEN FALSE
             ELSE bearerToken[2] = token

\* Whether the route's handler is reached: main wraps all five routes in
\* authMiddleware, newMux wraps given, received and user only.
authMiddleware(w, path, token, authHeader) ==
    IF w = "manager" /\ path \in {"/api/givers", "/api/recipients"} THEN TRUE
    ELSE Authorized(token, authHeader)

ApiPaths ==
    {"/api/given", "/api/received", "/api/user", "/api/givers", "/api/recipients"}

\* time.Parse("2006-01-02", day) of the query values used.
DayParam == [D0 |-> 0, D1 |-> 1]

\* parseDateRangeFromParams with the day parameter: the range, or an error.
parseDateRangeFromParams(q) ==
    IF q.day \in DOMAIN DayParam
    THEN [err |-> FALSE, start |-> ParseDate(DayParam[q.day]),
          end |-> ParseDate(DayParam[q.day])]
    ELSE [err |-> TRUE, start |-> NoTs, end |-> NoTs]

RECURSIVE RowsInOrder(_)
\* The rows of a table as a scan returns them, by rowid.
RowsInOrder(b) ==
    IF b = {} THEN << >>
    ELSE LET last == CHOOSE r \in b : \A x \in b : x.id <= r.id
         IN Append(RowsInOrder(b \ {last}), last)

RECURSIVE Distinct(_)
\* DISTINCT: a value is returned with the first row that has it.
Distinct(col) ==
    IF col = << >> THEN << >>
    ELSE LET front == Distinct(SubSeq(col, 1, Len(col) - 1))
             v == col[Len(col)]
         IN IF \E i \in DOMAIN front : front[i] = v THEN front ELSE Append(front, v)

\* SELECT giver_id FROM beers, every row's value appended to the list.
GetAllGiversEveryRow(b) ==
    [i \in 1..Cardinality(b) |-> RowsInOrder(b)[i].giver_id]

\* SELECT DISTINCT giver_id FROM beers, every returned value appended.
GetAllGivers(b) ==
    Distinct([i \in 1..Cardinality(b) |-> RowsInOrder(b)[i].giver_id])

\* SELECT DISTINCT recipient_id FROM beers, every returned value appended.
GetAllRecipients(b) ==
    Distinct([i \in 1..Cardinality(b) |-> RowsInOrder(b)[i].recipient_id])

\* The handlers: 400 on a missing user or date range, 500 on an error of the
\* store or of Slack, else the answer.
Answer(code, read, list, count) ==
    [code |-> code, ran |-> TRUE, read |-> read, list |-> list, count |-> count]

Handle(path, q, b, fails) ==
    CASE path \in {"/api/given", "/api/received"} ->
            IF q.user = "" THEN Answer(400, "none", << >>, 0)
            ELSE LET range == parseDateRangeFromParams(q)
                 IN  IF range.err THEN Answer(400, "none", << >>, 0)
                     ELSE IF fails THEN Answer(500, "beers", << >>, 0)
                     ELSE Answer(200, "beers", << >>,
                             IF path = "/api/given"
                             THEN CountGivenInDateRange(b, q.user, range.start, range.end)
                             ELSE CountReceivedInDateRange(b, q.user, range.start,
                                                           range.end))
      [] path = "/api/user" ->
            IF q.user = "" THEN Answer(400, "none", << >>, 0)
            ELSE IF fails THEN Answer(500, "slack", << >>, 0)
            ELSE Answer(200, "slack", <<q.user>>, 0)
      [] path = "/api/givers" ->
            IF fails THEN Answer(500, "beers", << >>, 0)
            ELSE Answer(200, "beers", GetAllGivers(b), 0)
      [] path = "/api/recipients" ->
            IF fails THEN Answer(500, "beers", << >>, 0)
            ELSE Answer(200, "beers", GetAllRecipients(b), 0)

\* http.Error(w, "Unauthorized", http.StatusUnauthorized)
Unauthorized ==
    [code |-> 401, ran |-> FALSE, read |-> "none", list |-> << >>, count |-> 0]

Queries == {[user |-> u, day |-> d] : u \in {"", "U1"}, d \in {"", "D0", "bad"}}

\* A request of one of the five data endpoints.
Request(path, header, q) ==
    /\ wiring \in {"main", "manager"}
    /\ serving
    /\ req' = [path |-> path, header |-> header, query |-> q]
    /\ \E fails \in BOOLEAN :
        resp' = IF authMiddleware(wiring, path, apiToken, header)
                THEN Handle(path, q, beers, fails)
                ELSE Unauthorized
    /\ UNCHANGED <<assocVars, handlerVars, storeVars, backoffVars, supVars,
                   wiring, slackConnected, link, served, health>>

\* The handlers write nothing, so what a request is answered does not depend
\* on the requests before it: the first request of a behaviour stands for
\* every request.
NextApi ==
    /\ req = NoRequest
    /\ \E path \in ApiPaths, header \in Headers, q \in Queries :
        /\ path \in {"/api/givers", "/api/recipients"} => q = NoQuery
        /\ Request(path, header, q)

\* The two list endpoints asked with the right header.
NextLists ==
    /\ req = NoRequest
    /\ \E path \in {"/api/givers", "/api/recipients"} :
        Request(path, <<"Bearer", " ">> \o apiToken, NoQuery)

\* ------------------------------------------------------ health endpoints

\* main's handlers of /health and /api/health: both answer with the variable
\* slackConnected, and /health is degraded (503) when it is false.
mainHealth(path, connected) ==
    IF path = "/health"
    THEN [path |-> path,
          code |-> IF connected THEN 200 ELSE 503,
          status |-> IF connected THEN "healthy" ELSE "degraded",
          slack_connected |-> connected]
    ELSE [path |-> path, code |-> 200, status |-> "healthy",
          slack_connected |-> connected]

\* newHealthHandler: slack_connected is IsConnected(); with check_slack=true
\* the API is tested and a failure makes the answer degraded (503).
newHealthHandler(connected, check, testOk) ==
    LET degraded == check /\ ~testOk
    IN [path |-> "/api/health",
        code |-> IF degraded THEN 503 ELSE 200,
        status |-> IF degraded THEN "degraded" ELSE "healthy",
        slack_connected |-> connected]

restHealth == <<assocVars, handlerVars, storeVars, backoffVars, supVars, req, resp>>

\* main creates the bot and tests the connection once: slackConnected is set
\* from the outcome, and the bot is run only when the test passed.
MainStartup ==
    /\ wiring = "main"
    /\ link = "boot"
    /\ \E ok \in BOOLEAN :
        /\ slackConnected' = ok
        /\ link' = IF ok THEN "up" ELSE "off"
    /\ UNCHANGED <<restHealth, wiring, served, health>>

\* The Socket Mode connection of the running bot is lost.  The events the
\* client sends about it are ignored by processEvent.
LinkLost ==
    /\ wiring = "main"
    /\ link = "up"
    /\ link' = "down"
    /\ UNCHANGED <<restHealth, wiring, slackConnected, served, health>>

\* The client's own reconnection succeeds.
LinkRestored ==
    /\ wiring = "main"
    /\ link = "down"
    /\ link' = "up"
    /\ UNCHANGED <<restHealth, wiring, slackConnected, served, health>>

\* A request of /health or /api/health to main's mux.  The server listens
\* before the connection is tested.
MainHealth(path) ==
    /\ wiring = "main"
    /\ served < MaxRequests
    /\ served' = served + 1
    /\ health' = mainHealth(path, slackConnected)
    /\ UNCHANGED <<restHealth, wiring, slackConnected, link>>

\* A request of /api/health to the mux of newMux.
ManagerHealth ==
    /\ wiring = "manager"
    /\ served < MaxRequests
    /\ served' = served + 1
    /\ \E check \in BOOLEAN, testOk \in BOOLEAN :
        health' = newHealthHandler(isConnected, check, testOk)
    /\ UNCHANGED <<restHealth, wiring, slackConnected, link>>

NextHealth ==
    \/ MainStartup
    \/ LinkLost
    \/ LinkRestored
    \/ \E path \in {"/health", "/api/health"} : MainHealth(path)
    \/ ManagerHealth
    \/ wiring = "manager" /\ NextSup

NextStore ==
    \/ NewSQLiteStore
    \/ Serve
    \/ Restart
    \/ StoreAddBeer
    \/ StoreCount

NextConn ==
    \/ \E d \in Slots : ConnDeliver(d)
    \/ \E d \in Slots : ConnQuota(d)
    \/ \E d \in Slots : ConnAddBeer(d)
    \/ Tick

NextMinimal ==
    \/ \E d \in Slots : MinDeliver(d)
    \/ \E d \in Slots : MinAddBeer(d)
    \/ Tick

Next ==
    \/ \E d \in Slots : ConnDeliver(d)
    \/ \E d \in Slots : ConnQuota(d)
    \/ \E d \in Slots : ConnAddBeer(d)
    \/ \E d \in Slots : MinDeliver(d)
    \/ \E d \in Slots : MinAddBeer(d)
    \/ Tick

NextAssoc == Associate \/ Extract

\* extractQuantity on its own.
Quantify ==
    /\ ~gift.done
    /\ gift' = [done |-> TRUE, give |-> [quantity |-> extractQuantity(text)]]
    /\ UNCHANGED <<text, phase, result, handlerVars, storeVars, extVars>>

NextQuantity == Quantify

\* The AddBeer call of a handler for a message whose timestamp token is any
\* text: the event time is computed from the token and the row is written
\* with it; AddBeer's error is the only one there is.
StampGift(d) ==
    /\ d = 1
    /\ pc[d] = "idle"
    /\ \E ts \in TsTexts, err \in BOOLEAN :
        LET m == [MsgOne EXCEPT !.ts = ts]
            eventTime == IF bot = "connmgr" THEN connEventTime(ts, now)
                         ELSE parseSlackTSText(ts, now)
        IN  /\ err => faults < MaxFaults
            /\ faults' = IF err THEN faults + 1 ELSE faults
            /\ ev' = [ev EXCEPT ![d] = [msg |-> m, env |-> "E1"]]
            /\ beers' = IF err THEN beers
                        ELSE AddBeer(beers, m.user, "U2", ts, eventTime, 1)
            /\ wrote' = IF err THEN wrote ELSE [wrote EXCEPT ![d] = [x \in {"U2"} |-> 1]]
            /\ failedAdds' = IF err THEN [failedAdds EXCEPT ![d] = {"U2"}]
                             ELSE failedAdds
            /\ outcome' = [outcome EXCEPT ![d] =
                   IF bot = "connmgr" THEN "stored"
                   ELSE IF err THEN "error" ELSE "success"]
            /\ pc' = [pc EXCEPT ![d] = "done"]
    /\ UNCHANGED <<extVars, assocVars, storeVars, bot, readOnly, now, ticks,
                   processed_events, eventID, marked, total, givenToday, pending,
                   posts>>

NextCodec == \E d \in Slots : StampGift(d)

\* A message of U1 with any text arrives as the first delivery.
ConnRead(d) == d = 1 /\ ConnHandle(d, {[MsgOne EXCEPT !.text = t] : t \in Texts})

NextParse ==
    \/ \E d \in Slots : ConnRead(d)
    \/ \E d \in Slots : ConnQuota(d)
    \/ \E d \in Slots : ConnAddBeer(d)

\* Both handlers on the mixed traffic.
NextEvents ==
    \/ \E d \in Slots : ConnReceive(d)
    \/ \E d \in Slots : ConnQuota(d)
    \/ \E d \in Slots : ConnAddBeer(d)
    \/ \E d \in Slots : MinReceive(d)
    \/ \E d \in Slots : MinAddBeer(d)

\* Either bot on the store.
Spec == Init /\ [][Next]_vars

\* The connection manager's handler, buildEventHandler.
SpecConn == InitConn /\ [][NextConn]_vars

\* The MinimalSlackBot.
SpecMinimal == InitMinimal /\ [][NextMinimal]_vars

\* The store from the start of the process: migrate, then calls of its methods.
SpecStore == InitStore /\ [][NextStore]_vars

\* The connection manager with its goroutines.
SpecSup == InitSup /\ [][NextSup]_vars

\* The same, every goroutine that can take a step taking one in the end.
SpecSupFair ==
    /\ SpecSup
    /\ WF_vars(SupTop) /\ WF_vars(SupWait) /\ WF_vars(SupTestFailed)
    /\ WF_vars(SupConnect) /\ WF_vars(SupRunCancelled)
    /\ WF_vars(MonProbe) /\ WF_vars(MonStop)
    /\ \A c \in Clients : WF_vars(ProcReceive(c)) /\ WF_vars(ProcHello(c))

\* The delay of the loop, for every reconnectCount.
SpecBackoff == InitBackoff /\ [][NextBackoff]_vars

\* The event handlers on every kind of message event.
SpecEvents == Init /\ [][NextEvents]_vars

\* extractQuantity on texts with numbers and beer emoji.
SpecQuantity == InitQuantity /\ [][NextQuantity]_vars

\* buildEventHandler on one message of any text.
SpecParse == InitConn /\ [][NextParse]_vars

\* The timestamp codec inside the handlers' AddBeer call.
SpecCodec == Init /\ [][NextCodec]_vars

\* The list queries on ledgers of every shape.
SpecLists == InitLists /\ [][NextLists]_vars

\* The data endpoints of the API behind their authentication.
SpecApi == InitApi /\ [][NextApi]_vars

\* The health endpoints next to the connection they report on.
SpecHealth == InitHealth /\ [][NextHealth]_vars

\* The association on every short text.
SpecAssoc == InitAssoc /\ [][NextAssoc]_vars

\* ------------------------------------------------------------------ claims

Done(d) == pc[d] = "done"

Started(d) == pc[d] # "idle"

PostsBy(d) == {p \in posts : p.by = d}

\* The delivery has called AddBeer or posted to Slack.
Applied(d) == wrote[d] # << >> \/ failedAdds[d] # {} \/ PostsBy(d) # {}

SameMessage(d1, d2) ==
    /\ ev[d1].msg.channel = ev[d2].msg.channel
    /\ ev[d1].msg.user = ev[d2].msg.user
    /\ ev[d1].msg.ts = ev[d2].msg.ts

\* A Count or AddBeer call of the delivery failed after it had claimed the event.
StorageFailed(d) == outcome[d] = "count_error" \/ failedAdds[d] # {}

Claimers(k) == {d \in Slots : eventID[d] = k /\ marked[d] = "true"}

\* The units the delivery's message asks for, as the handler totalled them.
TotalOf(d) == total[d]

\* The ledger rows of a message: those of its sender and timestamp token.
RowsOf(m) == {r \in beers : r.giver_id = m.user /\ r.ts = m.ts}

\* C1: a message (same channel, sender and timestamp token) delivered again
\* under a different envelope id is applied at most once: the second delivery
\* writes nothing to the ledger and posts nothing.
C1_AtMostOnceAcrossRedelivery ==
    \A d1, d2 \in Slots :
        (/\ d1 # d2 /\ Started(d1) /\ Started(d2)
         /\ SameMessage(d1, d2)
         /\ ev[d1].env # "" /\ ev[d2].env # "" /\ ev[d1].env # ev[d2].env)
        => ~(Applied(d1) /\ Applied(d2))

C2_OneClaimPerKey ==
    \A d \in Slots :
        Started(d) =>
            Cardinality(Claimers(eventID[d])) =
                IF eventID[d] \in DOMAIN processed_events THEN 1 ELSE 0

C2_MarkerKept ==
    \A k \in DOMAIN processed_events :
        k \in DOMAIN processed_events' /\ processed_events'[k] = processed_events[k]

\* C2: of all TryMarkEventProcessed calls for one key, in any interleaving,
\* exactly one returns true (as soon as one call has come back without a
\* database error) and no other does; the stored marker, key and first-seen
\* time, is never changed or removed afterwards.
C2_ExactlyOneClaim == []C2_OneClaimPerKey /\ [][C2_MarkerKept]_vars

\* C2 (the case): two calls for one key have returned, one true and one false.
C2_TwoCallsOneKey ==
    \E d1, d2 \in Slots :
        /\ d1 # d2 /\ eventID[d1] = eventID[d2]
        /\ marked[d1] = "true" /\ marked[d2] = "false"

DeliveriesOf(e) == {d \in Slots : Started(d) /\ ev[d].env = e}

WritesFor(e) == {d \in DeliveriesOf(e) : wrote[d] # << >>}

ConfirmationsFor(e) == {p \in posts : p.kind = "confirmation" /\ ev[p.by].env = e}

\* The message is a gift to somebody else.
GiftToOther(m) == extractRecipient(m.text) \notin {"", m.user}

C4_MarkErrorLeavesUnclaimed ==
    \A d \in Slots :
        /\ marked[d] = "err" =>
            /\ Done(d) /\ ~Applied(d) /\ pending[d] = << >>
            /\ eventID[d] \in DOMAIN processed_events => Claimers(eventID[d]) # {}
        /\ marked[d] = "false" => Claimers(eventID[d]) \ {d} # {}

\* C4 (the case): the claim of an event failed and its next delivery was
\* processed as a new event.
C4_RetriedAfterMarkError ==
    \E d1, d2 \in Slots :
        /\ d1 < d2 /\ eventID[d1] = eventID[d2]
        /\ marked[d1] = "err" /\ marked[d2] = "true"
        /\ outcome[d2] \in {"stored", "success"}

\* C5: when CountGivenOnDate or AddBeer fails after the event was claimed, the
\* event is left unclaimed (its key is not in processed_events), so that a
\* redelivery is processed again.
C5_StorageFailureLeavesUnclaimed ==
    \A d \in Slots :
        (Done(d) /\ marked[d] = "true" /\ StorageFailed(d))
        => eventID[d] \notin DOMAIN processed_events

Quoted(d) == givenToday[d] >= 0

Admitted(d) == pc[d] = "add" \/ outcome[d] = "stored"

Rejected(d) == outcome[d] \in {"limit_reached", "exceeded_allowed"}

C6_Decision ==
    \A d \in Slots :
        Quoted(d) =>
            LET g == givenToday[d]
                T == TotalOf(d)
            IN  /\ Admitted(d) <=> g + T <= maxPerDay
                /\ g >= maxPerDay =>
                       /\ outcome[d] = "limit_reached"
                       /\ \E p \in PostsBy(d) : p.kind = "limit_reached"
                /\ (g < maxPerDay /\ maxPerDay < g + T) =>
                       /\ outcome[d] = "exceeded_allowed"
                       /\ PostsBy(d) = {[by |-> d, kind |-> "exceeded_allowed",
                                         n |-> maxPerDay - g]}
                /\ ~Admitted(d) =>
                       wrote[d] = << >> /\ failedAdds[d] = {} /\ pending[d] = << >>

C6_CountRead ==
    \A d \in Slots :
        (~Quoted(d) /\ Quoted(d)') =>
            givenToday'[d] = CountGivenOnDate(beers, ev[d].msg.user, Today(now))

\* C6: with g the sender's recorded total for today, as the handler reads it,
\* and T the units the message asks for: the message is admitted iff
\* g + T <= max; with g >= max the limit-reached notice is posted; with
\* g < max < g + T the notice states max - g units left; a rejected message
\* is rejected as a whole, no AddBeer call is made for any recipient.
C6_QuotaDecision == []C6_Decision /\ [][C6_CountRead]_vars

\* C6 (the case): one message admitted and stored, the next one rejected
\* with one unit left.
C6_AdmittedThenExceeded ==
    \E d1, d2 \in Slots :
        /\ outcome[d1] = "stored" /\ givenToday[d1] = 0
        /\ outcome[d2] = "exceeded_allowed" /\ givenToday[d2] = 1
        /\ [by |-> d2, kind |-> "exceeded_allowed", n |-> maxPerDay - 1] \in posts

\* C7: after any sequence of processed gift messages the sum of the
\* quantities recorded for a sender on the current UTC day is at most the
\* daily maximum.
C7_DailyLimit ==
    CountGivenOnDate(beers, "U1", Today(now)) <= maxPerDay

C8_NoWriteByRejected ==
    \A d \in Slots :
        Rejected(d) => Done(d) /\ wrote[d] = << >> /\ failedAdds[d] = {}

C8_RejectionFrame ==
    \A d \in Slots :
        (pc[d] = "quota" /\ Rejected(d)') =>
            /\ beers' = beers
            /\ CountGivenOnDate(beers', ev[d].msg.user, Today(now')) =
                   CountGivenOnDate(beers, ev[d].msg.user, Today(now))

\* C8: the rejection of a message by the quota check leaves
\* CountGivenOnDate(giver, today) as it was before and changes no ledger row;
\* the rejected delivery makes no AddBeer call.
C8_RejectionChangesNothing == []C8_NoWriteByRejected /\ [][C8_RejectionFrame]_vars

\* C8 (the case): a message was rejected with the limit reached.
C8_LimitReached ==
    \E d \in Slots :
        /\ Done(d) /\ outcome[d] = "limit_reached"
        /\ givenToday[d] >= maxPerDay
        /\ beers # {}

\* C9: when the handler has finished an admitted message, the quantities in
\* the ledger for that message, summed over its recipients, equal the total
\* the association computed.
C9_LedgerSumIsTotal ==
    \A d \in Slots :
        (bot = "connmgr" /\ Done(d) /\ outcome[d] = "stored")
        => SumCounts(RowsOf(ev[d].msg)) = TotalOf(d)



\* The association the claim describes: each marker goes to the mention whose
\* end offset is the greatest one that is <= the marker's start offset.
ClaimedRecipientOf(txt, e) ==
    LET Q == {m \in mentionIndices(txt) : EndOf(txt, m) <= StartOf(txt, e)}
    IN  IF Q = {} THEN ""
        ELSE MentionID(txt[CHOOSE m \in Q :
                 \A n \in Q : EndOf(txt, n) <= EndOf(txt, m)])

ClaimedAssociation(txt) ==
    LET R == {ClaimedRecipientOf(txt, e) : e \in emojiIndices(txt)} \ {""}
    IN  [r \in R |->
            Cardinality({e \in emojiIndices(txt) : ClaimedRecipientOf(txt, e) = r})]

\* C10: for every message text the recipient -> count map holds exactly the
\* attributions of each marker to the mention with the greatest end offset
\* <= the marker's start offset (a marker that starts where a mention ends
\* counts for that mention).
C10_NearestPrecedingMention ==
    phase = "parsed" => result = ClaimedAssociation(text)

\* C10 (the scenario): the example text yields {U1: 2, U2: 1}.
C10_ExampleParsed ==
    /\ phase = "parsed"
    /\ text = ExampleText
    /\ result = [r \in {"U1", "U2"} |-> IF r = "U1" THEN 2 ELSE 1]

\* C11: for a text that mentions several recipients, each followed by gift
\* markers, processBeerGiving records one gift per recipient, its quantity
\* the number of markers attributed to that recipient.
C11_OneGiftPerRecipient ==
    (gift.done /\ Cardinality(DOMAIN ClaimedAssociation(text)) >= 2)
    => gift.give = ClaimedAssociation(text)

RECURSIVE WithoutNumerals(_)
WithoutNumerals(txt) ==
    IF txt = << >> THEN << >>
    ELSE IF Head(txt) \in NumeralTokens THEN WithoutNumerals(Tail(txt))
    ELSE <<Head(txt)>> \o WithoutNumerals(Tail(txt))

\* C12: numerals in the text never change the recorded quantity: what is
\* recorded for a gift message is what is recorded for the same text with its
\* numerals taken out, the count of the markers.
C12_NumeralsChangeNothing ==
    (gift.done /\ gift.give # << >>) => gift.give = beerGift(WithoutNumerals(text))

\* The keys (giver, recipient, ts) of the rows of the beers table.
LedgerKeys == {<<r.giver_id, r.recipient_id, r.ts>> : r \in beers}

\* The rows of the beers table under a key.
RowsUnder(k) == {r \in beers : <<r.giver_id, r.recipient_id, r.ts>> = k}

\* The last call of AddBeer returned without error.
Added == lastAdd.seq > 0 /\ ~lastAdd.err

\* C13: once migrate has returned without error, and after any calls of
\* AddBeer that follow, the beers table holds at most one row for each key
\* (giver, recipient, ts).
C13_OneRowPerKey ==
    store = "ok" => \A k \in LedgerKeys : Cardinality(RowsUnder(k)) = 1

\* C13 witness: a table of two keys, after an AddBeer on a key that was there.
C13_ReAddedAmongOthers ==
    /\ store = "ok"
    /\ Added
    /\ lastAdd.prev # 0
    /\ Cardinality(LedgerKeys) >= 2
\* The key of the last AddBeer call.
LastKey == <<lastAdd.giver, lastAdd.recipient, lastAdd.ts>>

\* C14: AddBeer is an idempotent upsert keyed by (giver, recipient, ts): after
\* a call the row of the key holds the provided count, whatever count it held
\* before (last write wins, no summing), and the same call once more leaves
\* the beers table as it is.
C14_IdempotentUpsert ==
    Added =>
        /\ RowsUnder(LastKey) # {}
        /\ \A r \in RowsUnder(LastKey) : r.count = lastAdd.count
        /\ AddBeer(beers, lastAdd.giver, lastAdd.recipient, lastAdd.ts,
                   lastAdd.t, lastAdd.count) = beers

\* C14 witness: an AddBeer on a key that held another count.
C14_Overwritten ==
    /\ Added
    /\ lastAdd.prev # 0
    /\ lastAdd.prev # lastAdd.count
\* The last Count call followed the last AddBeer call directly and asked for
\* what its giver gave.
CountedAfterAdd ==
    /\ Added
    /\ lastCount.seq = lastAdd.seq + 1
    /\ lastCount.op = "CountGivenInDateRange"
    /\ lastCount.user = lastAdd.giver

\* The UTC date of an instant lies in the window of the last Count call.
InWindow(t) ==
    /\ DateOf(FormatRFC3339(lastCount.start)) <= DateOf(FormatRFC3339(t))
    /\ DateOf(FormatRFC3339(t)) <= DateOf(FormatRFC3339(lastCount.end))

\* The rows of the giver of the last AddBeer call under other keys, dated in
\* the window of the last Count call.
OthersInWindow ==
    {r \in beers :
        /\ r.giver_id = lastAdd.giver
        /\ <<r.giver_id, r.recipient_id, r.ts>> # LastKey
        /\ r.ts_rfc # Null
        /\ InWindow(<<r.ts_rfc, 0>>)}

\* C15: after AddBeer(giver, recipient, ts, instant, q), with no other row of
\* the giver in the window, CountGivenInDateRange(giver, start, end) over a
\* window that contains the UTC date of instant returns q.
C15_RoundTrip ==
    (CountedAfterAdd /\ InWindow(lastAdd.t) /\ OthersInWindow = {})
        => lastCount.ret = lastAdd.count
\* The last call on the store was a Count call.
Counted == lastCount.seq > 0 /\ lastCount.seq > lastAdd.seq

\* The rows of the user the last Count call asked for: those it gave or
\* those it received.
RowsOfCounted ==
    {r \in beers :
        IF lastCount.op = "CountGivenInDateRange"
        THEN r.giver_id = lastCount.user
        ELSE r.recipient_id = lastCount.user}

\* The quantity of the rows of that user whose instant is on UTC date d.
QuantityOn(d) ==
    SumCounts({r \in RowsOfCounted : r.ts_rfc # Null /\ DateOf(r.ts_rfc) = d})

RECURSIVE QuantityFrom(_, _)
\* The quantities of the dates lo..hi added up.
QuantityFrom(lo, hi) ==
    IF lo > hi THEN 0 ELSE QuantityOn(lo) + QuantityFrom(lo + 1, hi)

\* C16: CountGivenInDateRange(u, start, end) and
\* CountReceivedInDateRange(u, start, end) return the sum of the quantities of
\* the rows of u whose instant has a UTC date d with start <= d <= end, both
\* ends included, and 0 when there is no such row.
C16_InclusiveDateRange ==
    Counted =>
        lastCount.ret = QuantityFrom(DateOf(FormatRFC3339(lastCount.start)),
                                     DateOf(FormatRFC3339(lastCount.end)))

\* C16 witness: a Count call over two dates with a row of the user on each.
C16_RowsOnBothEnds ==
    /\ Counted
    /\ DateOf(FormatRFC3339(lastCount.start)) < DateOf(FormatRFC3339(lastCount.end))
    /\ QuantityOn(DateOf(FormatRFC3339(lastCount.start))) > 0
    /\ QuantityOn(DateOf(FormatRFC3339(lastCount.end))) > 0
\* The quantity a set of legacy rows stands for: a row without a count is one
\* beer.
LegacyQuantity(R) ==
    SumCounts({[r EXCEPT !.count = IF r.count = Null THEN 1 ELSE r.count] : r \in R})

\* A run of migrate that no failure of the database struck.
MigrateRan == store = "none" /\ store' # "none" /\ faults' = faults

\* C17: migrate on a beers table that lacks the uniqueness constraint
\* completes without error and leaves, for every key (giver, recipient, ts),
\* exactly one row, whose quantity is the sum of the quantities of the legacy
\* rows of that key.
C17_LegacyMerge ==
    [][(MigrateRan /\ schema.exists /\ ~schema.unique) =>
          /\ store' = "ok"
          /\ \A k \in LedgerKeys :
                /\ Cardinality({r \in beers' :
                       <<r.giver_id, r.recipient_id, r.ts>> = k}) = 1
                /\ \A r \in beers' :
                       <<r.giver_id, r.recipient_id, r.ts>> = k
                       => r.count = LegacyQuantity(RowsUnder(k))]_vars
\* The rows of a table without the columns migrate may add.
Original(R) ==
    {[id |-> r.id, giver_id |-> r.giver_id, recipient_id |-> r.recipient_id,
      ts |-> r.ts] : r \in R}

\* The quantities a table holds, row by row.
Quantities(R) == {<<r.id, r.count>> : r \in {x \in R : x.count # Null}}

\* The errors of the steps of the rebuild.
RebuildErrors ==
    {"migrate begin tx", "migrate create beers_new", "migrate copy aggregated",
     "migrate drop old beers", "migrate commit recreate"}

\* C18: the rebuild of the migration is all-or-nothing: when one of its steps
\* fails, the beers table is still there with all the rows it had, and no
\* step of the program takes a beers table that exists to a state without
\* one.
C18_AllOrNothing ==
    [][/\ schema.exists => schema'.exists
       /\ (store = "none" /\ mig'.err \in RebuildErrors) =>
              /\ Original(beers') = Original(beers)
              /\ Quantities(beers) \subseteq Quantities(beers')]_vars

\* C18 witness: a rebuild has failed on a table with rows, which are all
\* there.
C18_FailedRebuildKeptRows ==
    /\ store = "failed"
    /\ mig.err \in RebuildErrors
    /\ schema.exists
    /\ before # {}
    /\ Original(beers) = Original(before)
\* C19: migrate on a beers table that has the full schema changes nothing,
\* on every repeated run: the rows, and so their number and the quantity of
\* every key, are the same after as before, the schema too, and without a
\* failure of the database the run returns no error.
C19_MigrateIdempotent ==
    [][(store = "none" /\ store' # "none" /\ schema = FullSchema) =>
          /\ beers' = beers
          /\ schema' = schema
          /\ faults' = faults => store' = "ok"]_vars

\* C19 witness: the process was started again on a migrated table with rows,
\* and migrate has run on it.
C19_MigratedAgain ==
    /\ restarts >= 1
    /\ store = "ok"
    /\ mig.ran
    /\ schema = FullSchema
    /\ beers # {}
    /\ beers = before
\* migrate has returned nil in this process.
Migrated == mig.ran /\ mig.err = ""

\* C20: no read or write of the ledger is served before migrate has returned
\* without error; when migrate returns an error there is no store, and
\* neither the HTTP API nor the Slack event loop is started.
C20_MigrationBeforeTraffic ==
    /\ serving => Migrated
    /\ (lastAdd.seq > 0 \/ lastCount.seq > 0) => Migrated
    /\ (mig.ran /\ mig.err # "") => (store = "failed" /\ ~serving)

\* C20 witness: a start that failed in migrate, on a database that served
\* calls in an earlier run.
C20_FailedStartAfterTraffic ==
    /\ mig.ran
    /\ mig.err # ""
    /\ ~serving
    /\ calls > 0
\* C21: once the root context is cancelled and the loop of
\* StartWithReconnection has returned, the tracked state is not Connected:
\* IsConnected() is false from then on, whatever processEvents does.
C21_ShutdownTerminal == (ctxDone /\ sup = "stopped") => ~isConnected
\* min(1s * 2^n, 5min) in nanoseconds; 2^9 seconds are more than 5 minutes.
CappedBackoff(n) ==
    IF n >= 9 THEN Mul64(Mul64(One64, 300), 1000000000)
    ELSE Mul64(Mul64(One64, 2 ^ n), 1000000000)

\* C22: for every attempt count n >= 0 the delay the loop computes is
\* min(1s * 2^n, 5min).
C22_BackoffBound == delay # NoDelay => delay = CappedBackoff(attempt)
\* C23: reconnectCount goes up by one on every failed connection attempt (a
\* failed connection test, a socket run that ends in an error and is to be
\* retried) and goes back to 0 only where the loop enters Connected; so it
\* equals the number of failed attempts since the last established
\* connection.
C23_CounterCountsFailures ==
    /\ [](reconnectCount = streak)
    /\ [][/\ streak' = streak + 1 => reconnectCount' = reconnectCount + 1
          /\ reconnectCount' > reconnectCount => reconnectCount' = reconnectCount + 1
          /\ reconnectCount' < reconnectCount =>
                 (reconnectCount' = 0 /\ sup = "connect" /\ isConnected')]_vars

\* C23 witness: two failed attempts in a row after a connection that had
\* been established.
C23_TwoFailuresAfterConnection ==
    /\ conn >= 1
    /\ streak = 2
    /\ reconnectCount = 2
\* A processEvents goroutine that has been started and has not returned.
Delivering == {c \in Clients : pe[c] \in {"recv", "hello"}}

\* C24: after the root context is cancelled, the reconnect loop, every
\* processEvents loop and the connection monitor terminate in the end.
C24_AllTerminate ==
    ctxDone ~> (sup = "stopped" /\ mon = "stopped" /\ Delivering = {})
\* C26: a liveness probe that fails while the tracked state is Connected
\* shows in the state the connection manager exposes: the tracked state or
\* the connectivity gauge leaves Connected.
C26_FailedProbeFlagged ==
    [][(mon = "probe" /\ mon' = "wait" /\ isConnected /\ probeFailed')
           => (~isConnected' \/ ~slackGauge')]_vars
\* The connection state at this moment: the manager's tracked state, or in
\* main, where no manager is built, the state of the bot's connection.
Connected == IF wiring = "manager" THEN isConnected ELSE link = "up"

\* C25: every health response reports, as slack_connected, the connection
\* state of the moment it is given: false after the connection is lost, true
\* again after a reconnect.
C25_HealthReportsCurrentState ==
    [][served' = served + 1 => health'.slack_connected = Connected']_vars
\* "Bearer " followed by the configured token.
BearerHeader == <<"Bearer", " ">> \o apiToken

\* C30: the handler of a data endpoint runs only for a request whose
\* Authorization header is "Bearer " and the configured token; every other
\* request is answered 401 and reads nothing.
C30_BearerOnly ==
    req # NoRequest =>
        IF req.header = BearerHeader THEN resp.ran
        ELSE resp = Unauthorized /\ resp.read = "none"
\* What the event filter keeps out: a subtype, a reply in a thread, another
\* channel.
Filtered(m) ==
    \/ m.subtype # ""
    \/ m.thread_ts # NoTs /\ m.thread_ts # m.ts
    \/ m.channel # channelID

\* C27: a delivery of a subtyped message, of a thread reply or of a message
\* of another channel leaves no dedup marker, writes no ledger row, posts no
\* reply and raises no error; it never reaches gift parsing.
C27_FilteredIgnored ==
    \A d \in Slots :
        (Started(d) /\ Filtered(ev[d].msg)) =>
            /\ pc[d] = "done"
            /\ eventID[d] = NoKey
            /\ marked[d] = "none"
            /\ wrote[d] = << >>
            /\ PostsBy(d) = {}
            /\ outcome[d] \in {"ignored", "subtype"}
\* The recipients a delivery's message names, as its handler reads them.
NamedBy(d) ==
    IF bot = "connmgr" THEN DOMAIN recipientBeers(ev[d].msg.text)
    ELSE {extractRecipient(ev[d].msg.text)}

\* C28: the ledger holds no row with giver = recipient; a message whose
\* recipient is its own sender writes nothing and, when no store call of its
\* handler failed, is counted as self_gift.
C28_NoSelfGift ==
    /\ \A r \in beers : r.giver_id # r.recipient_id
    /\ \A d \in Slots :
        (Done(d) /\ marked[d] = "true" /\ NamedBy(d) = {ev[d].msg.user}
                 /\ outcome[d] # "count_error" /\ failedAdds[d] = {}) =>
            /\ wrote[d] = << >>
            /\ outcome[d] = "self_gift"

\* The deliveries that computed a key without an envelope id.
Keyed == {d \in Slots : Started(d) /\ eventID[d] # NoKey /\ ev[d].env = ""}

SameSource(m, n) == m.channel = n.channel /\ m.user = n.user /\ m.ts = n.ts

\* C29: the key is the envelope id when there is one; without one, two
\* messages get the same key exactly when they agree in channel, sender and
\* timestamp, and a message is a duplicate only of a delivery of itself.
C29_KeySelection ==
    /\ \A d \in Slots :
        (Started(d) /\ eventID[d] # NoKey /\ ev[d].env # "") =>
            (eventID[d].kind = "envelope" /\ eventID[d].id = ev[d].env)
    /\ \A d \in Keyed, f \in Keyed :
        (eventID[d] = eventID[f]) <=> SameSource(ev[d].msg, ev[f].msg)
    /\ \A d \in Keyed :
        marked[d] = "false" =>
            \E f \in Keyed : f # d /\ SameSource(ev[d].msg, ev[f].msg)
\* The ids a list names, and whether it names each once.
Listed(l) == {l[i] : i \in DOMAIN l}

NoRepeat(l) == \A i \in DOMAIN l, j \in DOMAIN l : l[i] = l[j] => i = j

\* C31: GetAllGivers returns every id that is the giver of a ledger row, each
\* once, and no other id; GetAllRecipients does the same for recipients.
C31_DistinctLists ==
    resp.code = 200 =>
        /\ NoRepeat(resp.list)
        /\ req.path = "/api/givers" => Listed(resp.list) = {r.giver_id : r \in beers}
        /\ req.path = "/api/recipients" =>
               Listed(resp.list) = {r.recipient_id : r \in beers}

\* The givers were listed from a ledger in which one giver has rows to two
\* recipients.
C31_GiverOfSeveralListed ==
    /\ resp.code = 200
    /\ req.path = "/api/givers"
    /\ \E r \in beers, x \in beers :
           r.giver_id = x.giver_id /\ r.recipient_id # x.recipient_id
\* A standalone integer of the text: the digits from i to e with no digit or
\* letter next to them; its value.
Standalone(txt, i, e) ==
    /\ i <= e
    /\ \A k \in i..e : txt[k] \in {"N0", "N1", "N2"}
    /\ i > 1 => txt[i - 1] \notin {"N0", "N1", "N2", "W"}
    /\ e < Len(txt) => txt[e + 1] \notin {"N0", "N1", "N2", "W"}

RECURSIVE ValueOf(_, _, _)
ValueOf(txt, i, e) ==
    IF i > e THEN 0
    ELSE (CASE txt[i] = "N1" -> 1 [] txt[i] = "N2" -> 2 [] OTHER -> 0) * 10 ^ (e - i)
             + ValueOf(txt, i + 1, e)

\* The standalone integers from 1 to 10, as <<first position, last position>>.
InRange(txt) ==
    {p \in (DOMAIN txt) \X (DOMAIN txt) :
        /\ Standalone(txt, p[1], p[2])
        /\ ValueOf(txt, p[1], p[2]) \in 1..10}

BeerEmoji(txt) == Cardinality({i \in DOMAIN txt : txt[i] = "B"})

\* C32: extractQuantity returns the first standalone integer from 1 to 10 of
\* the text; without one the number of beer emoji if that is from 1 to 10;
\* else 1.  The result is always from 1 to 10.
C32_ExtractQuantity ==
    gift.done =>
        LET q == gift.give.quantity
            I == InRange(text)
        IN  /\ q \in 1..10
            /\ IF I # {}
               THEN \E p \in I :
                       /\ \A o \in I : p[1] <= o[1]
                       /\ q = ValueOf(text, p[1], p[2])
               ELSE IF BeerEmoji(text) \in 1..10 THEN q = BeerEmoji(text)
               ELSE q = 1

\* A quantity was extracted from a text with a number out of range before a
\* number in range, and one from a text with more than ten beer emoji.
C32_SkippedOutOfRange ==
    /\ gift.done
    /\ text = <<"N0", "S", "N2">>

C32_MoreThanTenEmoji ==
    /\ gift.done
    /\ BeerEmoji(text) > 10
\* The token of the first delivery, its seconds part, and whether that is an
\* integer.
Token == ev[1].msg.ts

SecondsText(ts) ==
    IF \E i \in DOMAIN ts : ts[i] = "."
    THEN SubSeq(ts, 1, (CHOOSE i \in DOMAIN ts :
                            ts[i] = "." /\ \A j \in 1..(i - 1) : ts[j] # ".") - 1)
    ELSE ts

IsInteger(part) == part # << >> /\ \A i \in DOMAIN part : part[i] \in {"10", "7"}

RECURSIVE Decimal(_)
Decimal(part) ==
    IF part = << >> THEN 0
    ELSE IF Head(part) = "10" THEN 10 * 10 ^ (DigitCount(Tail(part))) + Decimal(Tail(part))
    ELSE 7 * 10 ^ (DigitCount(Tail(part))) + Decimal(Tail(part))

\* C33: a token "S.F" with an integer S is stored with the canonical instant
\* of Unix seconds S; an empty token, or one whose seconds do not parse, never
\* fails the processing: the row is stored with the current time.
C33_TimestampCodec ==
    (Done(1) /\ failedAdds[1] = {}) =>
        /\ Cardinality(beers) = 1
        /\ \A r \in beers :
            IF IsInteger(SecondsText(Token)) THEN r.ts_rfc = Decimal(SecondsText(Token))
            ELSE r.ts_rfc = FormatRFC3339(now)

\* A row was stored for the token "x.7", whose seconds do not parse, with the
\* current time.
C33_StoredWithClock ==
    /\ Done(1) /\ failedAdds[1] = {}
    /\ Token = <<"x", ".", "7">>
    /\ \E r \in beers : r.ts_rfc = FormatRFC3339(now)
\* The markers of a text that come after some mention, and the texts whose
\* markers all come before every mention.
Preceded(txt) == {e \in emojiIndices(txt) : \E m \in mentionIndices(txt) : m < e}

NothingToGive(txt) ==
    mentionIndices(txt) = {} \/ emojiIndices(txt) = {} \/ Preceded(txt) = {}

\* C34: a marker with no mention before it adds no unit and is no error, and
\* a message whose recipient map is empty (no mention, no marker, only markers
\* before any mention) writes no ledger row, reads no quota and posts nothing.
C34_EmptyMapNoEffect ==
    LET txt == ev[1].msg.text
    IN  pc[1] # "idle" =>
        /\ NothingToGive(txt) => recipientBeers(txt) = << >>
        /\ SumOver(wrote[1], DOMAIN wrote[1]) <= Cardinality(Preceded(txt))
        /\ recipientBeers(txt) = << >> =>
            /\ pc[1] = "done"
            /\ beers = {}
            /\ givenToday[1] = -1
            /\ posts = {}
            /\ marked[1] = "true" =>
                   outcome[1] \in {"no_mentions", "no_emoji", "zero_total"}

\* The text ":beer: <@U1>", its only marker before the mention, was handled
\* and counted as zero_total.
C34_MarkerBeforeMention ==
    /\ Done(1)
    /\ ev[1].msg.text = <<"B", "S", "M1">>
    /\ marked[1] = "true"
    /\ outcome[1] = "zero_total"
    /\ beers = {}
\* C35: when an established connection has ended and no cancellation was
\* requested, the loop waits its backoff delay before it tests and connects
\* again: from the top of the loop it goes to the wait, never to the test.
C35_ReconnectAfterDelay ==
    [][(sup = "top" /\ conn > 0 /\ ~isConnected /\ ~ctxDone /\ sup' # sup)
           => sup' = "wait"]_vars
\* Two accesses conflict when they are to one field and one of them writes.
Races(a, b) == a.field = b.field /\ (a.write \/ b.write) /\ ~(a.mu /\ b.mu)

\* C36: no two goroutines of the manager (the reconnect loop, processEvents,
\* the monitor) are about to access one of isConnected, reconnectCount,
\* lastPing and socketClient, one of them writing, unless both hold the mutex.
C36_FieldsUnderMutex ==
    /\ \A c \in Clients : \A a \in SupAccesses, b \in ProcAccesses(c) : ~Races(a, b)
    /\ \A a \in SupAccesses, b \in MonAccesses : ~Races(a, b)
    /\ \A c \in Clients : \A a \in ProcAccesses(c), b \in MonAccesses : ~Races(a, b)
\* C37: migrate on a beers table that lacks the count or the ts_rfc column
\* keeps every row with its giver, recipient and ts, so the number of rows
\* too; a stored quantity stays, a row without one has 1 once the column is
\* there; and unless the database fails both columns are there afterwards.
C37_ColumnsAddedRowsKept ==
    [][(store = "none" /\ store' # "none" /\ schema.exists
            /\ (~schema.count \/ ~schema.ts_rfc)) =>
          /\ Original(beers') = Original(beers)
          /\ Cardinality(beers') = Cardinality(beers)
          /\ \A r \in beers, r2 \in beers' :
                r.id = r2.id =>
                    /\ r.count # Null => r2.count = r.count
                    /\ (r.count = Null /\ schema'.count) => r2.count = 1
          /\ faults' = faults => (schema'.count /\ schema'.ts_rfc)]_vars

\* migrate has added the count column to a table of two rows, which both
\* have quantity 1 now.
C37_DefaultQuantity ==
    /\ mig.ran /\ ~mig.fault
    /\ Cardinality(before) = 2
    /\ \A r \in before : r.count = Null
    /\ Cardinality(beers) = 2
    /\ \A r \in beers : r.count = 1

\* C40: after migrate has returned nil on a legacy table every row has a
\* canonical instant, the seconds of its timestamp token, and a date-range
\* query over the day of the tokens counts every quantity of the giver.
C40_InstantsBackfilled ==
    (store = "ok" /\ mig.ran) =>
        /\ \A r \in beers : r.ts_rfc # Null /\ r.ts_rfc = r.ts[1]
        /\ CountGivenInDateRange(beers, "U1", <<0, 0>>, <<200, 0>>)
               = SumCounts({r \in beers : r.giver_id = "U1"})
\* C38: two handlers that process two different messages of one sender at
\* the same time never both admit their message when the two together bring
\* the sender's recorded total of the day above the maximum.
C38_NoJointOverrun ==
    \A d1, d2 \in Slots :
        (/\ d1 # d2 /\ Done(d1) /\ Done(d2)
         /\ ev[d1].msg # ev[d2].msg
         /\ ev[d1].msg.user = ev[d2].msg.user
         /\ outcome[d1] = "stored" /\ outcome[d2] = "stored"
         /\ ticks = 0)
        => CountGivenOnDate(beers, ev[d1].msg.user, Today(now)) <= maxPerDay
\* C39: when the quota check admits a message, the UTC day it counted, the
\* day of the clock, is the day of the instant AddBeer will store for the
\* message's rows.
C39_CountedDayIsStoredDay ==
    [][\A d \in Slots :
          (pc[d] = "quota" /\ pc'[d] = "add") =>
              DateOf(FormatRFC3339(eventTimeOf(ev[d].msg.ts, now))) = Today(now)]_vars
====
